---- MODULE Spec2Model ----
(***************************************************************************)
(* A model of runtime/art_method.cc: the invocation dispatcher             *)
(* (ArtMethod::Invoke), the catch block resolver (FindCatchBlock), the     *)
(* code locator (GetOatQuickMethodHeader) and the hot-patch installer      *)
(* (EnableXposedHook) with RegisterNative / UnregisterNative / CopyFrom.   *)
(*                                                                         *)
(* Spec       : threads calling EnableXposedHook, Invoke, RegisterNative   *)
(*              and UnregisterNative on shared method descriptors.         *)
(* SpecCatch  : FindCatchBlock run step by step over bounded handler       *)
(*              tables.                                                    *)
(* SpecLocate : GetOatQuickMethodHeader applied to bounded descriptors,    *)
(*              JIT caches and oat tables.                                 *)
(***************************************************************************)
EXTENDS Integers, Sequences, FiniteSets, TLC

(***************************************************************************)
(* Bounds.                                                                 *)
(***************************************************************************)
\* How many Invoke activations a thread nests (SpecInvoke).
MaxDepth == 2
\* How many Invoke activations are live at a time, over all threads, while methods
\* are being hooked (Spec).
MaxFrames == 1
\* Longest catch handler list of a try item.
MaxHandlers == 3
\* Program counters range over 0..MaxPc; code regions are cut from it.
MaxPc == 3

\* DexFile::kDexNoIndex (0xFFFFFFFF, here as the 32-bit integer with those bits)
\* and DexFile::kDexNoIndex16 (0xFFFF).
kDexNoIndex == -1
kDexNoIndex16 == 65535

Threads == {"T1", "T2"}
NoThread == "none"
\* The threads that call EnableXposedHook in Spec; in SpecRace every thread does.
Hookers == {"T1"}
Payloads == {"p1", "p2"}
\* Method ids: the method that gets hooked, another method of the class; the
\* backups follow.
Hookee == 1
Other == 2

VARIABLES
  methods,        \* method id -> ArtMethod fields: Hookee, Other, then the backups
  hookInfos,      \* k -> XposedHookInfo allocated from the linear allocator
  jitOwner,       \* JIT code cache bookkeeping: code region -> owning method id
  directCallers,  \* methods whose address is embedded in call-site caches
  runtime,        \* [started, useJit]
  aborted,        \* a CHECK failed: the process is gone
  pc,             \* per thread: position inside the running operation
  op,             \* per thread: the running operation's arguments and locals
  threadState,    \* per thread: kRunnable / kSuspended
  exception,      \* per thread: the pending exception
  acts,           \* per thread: the Invoke activations, innermost last
  managedStack,   \* per thread: linked list of ManagedStack fragments, top first
  result,         \* per thread: the JValue of the Invoke that exited last, until read
  suspendAll,     \* holder of ScopedSuspendAll
  gcCritical,     \* holder of ScopedGCCriticalSection
  jitSuspend,     \* holders of ScopedJitSuspend
  threadListLock, \* holder of Locks::thread_list_lock_
  walkTodo,       \* threads ThreadList::ForEach has still to visit
  fcb,            \* FindCatchBlock: its inputs, locals and position
  loc,            \* GetOatQuickMethodHeader: its inputs and result
  jitInvalidated, \* methods the JIT code cache was asked to invalidate the code of
  eqp             \* EqualParameters: its inputs, locals and position

hookVars == <<methods, hookInfos, jitOwner, directCallers, runtime, aborted, pc, op,
              threadState, exception, acts, managedStack, result, suspendAll,
              gcCritical, jitSuspend, threadListLock, walkTodo>>
vars == <<methods, hookInfos, jitOwner, directCallers, runtime, aborted, pc, op,
          threadState, exception, acts, managedStack, result, suspendAll,
          gcCritical, jitSuspend, threadListLock, walkTodo, fcb, loc,
          jitInvalidated, eqp>>

(***************************************************************************)
(* Pointers: entry points, code addresses, the XposedHookInfo.             *)
(***************************************************************************)
Ptr(kind, id) == [kind |-> kind, id |-> id]
NullPtr == Ptr("null", 0)
QuickProxyInvokeHandler == Ptr("art_quick_proxy_invoke_handler", 0)
QuickToInterpreterBridge == Ptr("art_quick_to_interpreter_bridge", 0)
QuickGenericJniStub == Ptr("art_quick_generic_jni_trampoline", 0)
QuickResolutionStub == Ptr("art_quick_resolution_trampoline", 0)
QuickInstrumentationEntryPoint == Ptr("art_quick_instrumentation_entry", 0)
JniDlsymLookupStub == Ptr("art_jni_dlsym_lookup_stub", 0)
NativeFn == Ptr("native_fn", 0)
HookInfoPtr(k) == Ptr("hook_info", k)
OatCode(r) == Ptr("oat_code", r)
JitCode(r) == Ptr("jit_code", r)

\* jit::JitCodeCache::ContainsPc as CopyFrom uses it: the pointer lies in the cache.
ContainsPc(p) == p.kind = "jit_code"

(***************************************************************************)
(* Access flags.                                                           *)
(***************************************************************************)
kRemoveFlags == {"kAccNative", "kAccSynchronized", "kAccAbstract", "kAccDefault",
                 "kAccDefaultConflict"}

IsXposedHookedMethod(m) == "kAccXposedHookedMethod" \in m.flags
IsXposedOriginalMethod(m) == "kAccXposedOriginalMethod" \in m.flags
IsNative(m) == "kAccNative" \in m.flags
IsFastNative(m) == {"kAccNative", "kAccFastNative"} \subseteq m.flags
IsStatic(m) == "kAccStatic" \in m.flags
IsConstructor(m) == "kAccConstructor" \in m.flags
IsAbstract(m) == "kAccAbstract" \in m.flags
IsDefaultConflicting(m) == "kAccDefaultConflict" \in m.flags
IsInvokable(m) == ~IsAbstract(m) /\ ~IsDefaultConflicting(m)
IgnoreAotCode(m) == m.ignore_aot_code
SetIgnoreAotCode(m) == [m EXCEPT !.ignore_aot_code = TRUE]
IsRuntimeMethod(m) == m.dex_method_index = kDexNoIndex
IsRealProxyMethod(m) == m.declaring_class = "Proxy" /\ ~IsXposedHookedMethod(m)

\* The backup a hooked method's XposedHookInfo points to.
GetXposedOriginalMethod(ms, his, id) == his[ms[id].jni.id].original_method

(***************************************************************************)
(* ArtMethod::CopyFrom: the fields of the copy.                            *)
(***************************************************************************)
\* Lines 492-521 without the demotion of lines 508-512: the entry point is kept
\* as the memcpy left it.
CopyFromKeepEntryPoint(src, useJit) ==
  [src EXCEPT !.declaring_class = src.declaring_class,
              !.profiling = IF IsNative(src) THEN src.profiling ELSE "null",
              !.hotness = 0]

CopyFrom(src, useJit) ==
  [src EXCEPT !.declaring_class = src.declaring_class,
              !.quick = IF useJit /\ ContainsPc(src.quick)
                          THEN QuickToInterpreterBridge ELSE src.quick,
              !.profiling = IF IsNative(src) THEN src.profiling ELSE "null",
              !.hotness = 0]

(***************************************************************************)
(* Thread scheduling.                                                      *)
(***************************************************************************)
\* A runnable thread makes progress only while no other thread has suspended all.
CanRun(t) == ~aborted /\ threadState[t] = "kRunnable" /\ suspendAll \in {NoThread, t}

\* Positions between a call's entry and its next suspend check: SuspendAll waits
\* for a thread there to move on.
NoSuspendCheck == {"eh_check", "eh_backup"}

Suspended(u) == threadState[u] = "kSuspended" \/ pc[u] \notin NoSuspendCheck

IdleOp == [m |-> Hookee, info |-> "none", backup |-> 0]

Depth(t) == Len(acts[t])

\* Every frame of every thread's stack.
Frames == {f \in Threads \X (1..MaxDepth) : f[2] <= Len(acts[f[1]])}

(***************************************************************************)
(* ManagedStack fragments: Thread::PushManagedStackFragment / Pop.         *)
(***************************************************************************)
PushManagedStackFragment(ms, fragment) == <<fragment>> \o ms
PopManagedStackFragment(ms, fragment) == Tail(ms)

(***************************************************************************)
(* The method under test as class linking left it.                         *)
(***************************************************************************)
MethodKinds == {"jit", "native", "abstract"}

OtherMethod ==
  [flags |-> {"kAccStatic"}, jni |-> NullPtr, quick |-> OatCode(1), cio |-> 1,
   declaring_class |-> "C", dex_method_index |-> Other, profiling |-> "null",
   hotness |-> 1, ignore_aot_code |-> FALSE]

InitialMethod(kind) ==
  CASE kind = "jit" ->
         [flags |-> {"kAccSynchronized"}, jni |-> NullPtr, quick |-> JitCode(2), cio |-> 1,
          declaring_class |-> "C", dex_method_index |-> Hookee, profiling |-> "info", hotness |-> 1,
          ignore_aot_code |-> FALSE]
    [] kind = "native" ->
         [flags |-> {"kAccNative", "kAccStatic"}, jni |-> JniDlsymLookupStub,
          quick |-> QuickGenericJniStub, cio |-> 0,
          declaring_class |-> "C", dex_method_index |-> Hookee, profiling |-> "null", hotness |-> 1,
          ignore_aot_code |-> FALSE]
    [] kind = "proxy" ->
         [flags |-> {}, jni |-> NullPtr, quick |-> QuickProxyInvokeHandler, cio |-> 0,
          declaring_class |-> "Proxy", dex_method_index |-> Hookee, profiling |-> "null",
          hotness |-> 1, ignore_aot_code |-> FALSE]
    [] kind = "conflict" ->
         [flags |-> {"kAccDefault", "kAccDefaultConflict"}, jni |-> NullPtr,
          quick |-> NullPtr, cio |-> 0,
          declaring_class |-> "C", dex_method_index |-> Hookee, profiling |-> "null", hotness |-> 0,
          ignore_aot_code |-> FALSE]
    [] OTHER ->
         [flags |-> {"kAccAbstract"}, jni |-> NullPtr, quick |-> NullPtr, cio |-> 0,
          declaring_class |-> "C", dex_method_index |-> Hookee, profiling |-> "null", hotness |-> 0,
          ignore_aot_code |-> FALSE]

EmptyMap == [x \in {} |-> 0]

InitHookOf(kinds) ==
  /\ \E kind \in kinds :
       /\ methods = (Hookee :> InitialMethod(kind)) @@ (Other :> OtherMethod)
       /\ jitOwner = IF kind = "jit" THEN (2 :> Hookee) ELSE EmptyMap
       /\ runtime = [started |-> FALSE, useJit |-> kind \in {"jit", "native"}]
  /\ hookInfos = EmptyMap
  /\ directCallers = {Hookee}
  /\ aborted = FALSE
  /\ pc = [t \in Threads |-> "idle"]
  /\ op = [t \in Threads |-> IdleOp]
  /\ threadState = [t \in Threads |-> "kRunnable"]
  /\ exception = [t \in Threads |-> "none"]
  /\ acts = [t \in Threads |-> <<>>]
  /\ managedStack = [t \in Threads |-> <<>>]
  /\ result = [t \in Threads |-> "unwritten"]
  /\ jitInvalidated = {}
  /\ suspendAll = NoThread
  /\ gcCritical = NoThread
  /\ jitSuspend = {}
  /\ threadListLock = NoThread
  /\ walkTodo = {}

InitHook == InitHookOf(MethodKinds)

IdleCatch == [pc |-> "off"]
IdleLocate == [pc |-> "off"]
IdleParams == [pc |-> "off"]

Init == InitHook /\ fcb = IdleCatch /\ loc = IdleLocate /\ eqp = IdleParams

(***************************************************************************)
(* Runtime::Start.                                                         *)
(***************************************************************************)
StartRuntime ==
  /\ ~aborted /\ suspendAll = NoThread /\ ~runtime.started
  /\ runtime' = [runtime EXCEPT !.started = TRUE]
  /\ UNCHANGED <<methods, hookInfos, jitOwner, directCallers, aborted, pc, op,
                 threadState, exception, acts, managedStack, result, suspendAll,
                 gcCritical, jitSuspend, threadListLock, walkTodo>>

(***************************************************************************)
(* ArtMethod::EnableXposedHook.                                            *)
(***************************************************************************)
\* The call: soa.Self() is runnable and enters EnableXposedHook(this = m, additional_info = info).
CallEnableXposedHook(t, m, info) ==
  /\ CanRun(t) /\ pc[t] = "idle" /\ exception[t] = "none"
  /\ result[t] = "unwritten"
  /\ pc' = [pc EXCEPT ![t] = "eh_check"]
  /\ op' = [op EXCEPT ![t] = [m |-> m, info |-> info, backup |-> 0]]
  /\ UNCHANGED <<methods, hookInfos, jitOwner, directCallers, runtime, aborted,
                 threadState, exception, acts, managedStack, result, suspendAll,
                 gcCritical, jitSuspend, threadListLock, walkTodo>>

\* Lines 563-570 without the test of line 563.
EnableHookCheckNoHookedTest(t) ==
  /\ CanRun(t) /\ pc[t] = "eh_check"
  /\ IF IsXposedOriginalMethod(methods[op[t].m])
       THEN /\ exception' = [exception EXCEPT ![t] = "IllegalArgumentException"]
            /\ pc' = [pc EXCEPT ![t] = "idle"]
            /\ op' = [op EXCEPT ![t] = IdleOp]
       ELSE /\ pc' = [pc EXCEPT ![t] = "eh_backup"]
            /\ UNCHANGED <<exception, op>>
  /\ UNCHANGED <<methods, hookInfos, jitOwner, directCallers, runtime, aborted,
                 threadState, acts, managedStack, result, suspendAll,
                 gcCritical, jitSuspend, threadListLock, walkTodo>>

\* Lines 563-570 without the test of line 566.
EnableHookCheckNoBackupTest(t) ==
  /\ CanRun(t) /\ pc[t] = "eh_check"
  /\ IF IsXposedHookedMethod(methods[op[t].m])
       THEN /\ pc' = [pc EXCEPT ![t] = "idle"]
            /\ op' = [op EXCEPT ![t] = IdleOp]
       ELSE /\ pc' = [pc EXCEPT ![t] = "eh_backup"]
            /\ UNCHANGED op
  /\ UNCHANGED <<methods, hookInfos, jitOwner, directCallers, runtime, aborted,
                 threadState, exception, acts, managedStack, result, suspendAll,
                 gcCritical, jitSuspend, threadListLock, walkTodo>>

\* Lines 563-570: already hooked: return; a backup: throw and return.
EnableHookCheck(t) ==
  /\ CanRun(t) /\ pc[t] = "eh_check"
  /\ IF IsXposedHookedMethod(methods[op[t].m])
       THEN /\ pc' = [pc EXCEPT ![t] = "idle"]
            /\ op' = [op EXCEPT ![t] = IdleOp]
            /\ UNCHANGED exception
       ELSE IF IsXposedOriginalMethod(methods[op[t].m])
         THEN /\ exception' = [exception EXCEPT ![t] = "IllegalArgumentException"]
              /\ pc' = [pc EXCEPT ![t] = "idle"]
              /\ op' = [op EXCEPT ![t] = IdleOp]
         ELSE /\ pc' = [pc EXCEPT ![t] = "eh_backup"]
              /\ UNCHANGED <<exception, op>>
  /\ UNCHANGED <<methods, hookInfos, jitOwner, directCallers, runtime, aborted,
                 threadState, acts, managedStack, result, suspendAll,
                 gcCritical, jitSuspend, threadListLock, walkTodo>>

\* Lines 574-583 without the kAccXposedOriginalMethod of line 583.
EnableHookBackupUnmarked(t) ==
  /\ CanRun(t) /\ pc[t] = "eh_backup"
  /\ LET k == Cardinality(DOMAIN methods) + 1
         backup_method == CopyFrom(methods[op[t].m], runtime.useJit)
     IN /\ methods' = methods @@ (k :> backup_method)
        /\ op' = [op EXCEPT ![t].backup = k]
  /\ pc' = [pc EXCEPT ![t] = "eh_reflect"]
  /\ UNCHANGED <<hookInfos, jitOwner, directCallers, runtime, aborted,
                 threadState, exception, acts, managedStack, result, suspendAll,
                 gcCritical, jitSuspend, threadListLock, walkTodo>>

\* Lines 574-583: CreateRuntimeMethod, CopyFrom(this), set kAccXposedOriginalMethod.
EnableHookBackup(t) ==
  /\ CanRun(t) /\ pc[t] = "eh_backup"
  /\ LET k == Cardinality(DOMAIN methods) + 1
         copy == CopyFrom(methods[op[t].m], runtime.useJit)
         backup_method == [copy EXCEPT !.flags = @ \cup {"kAccXposedOriginalMethod"}]
     IN /\ methods' = methods @@ (k :> backup_method)
        /\ op' = [op EXCEPT ![t].backup = k]
  /\ pc' = [pc EXCEPT ![t] = "eh_reflect"]
  /\ UNCHANGED <<hookInfos, jitOwner, directCallers, runtime, aborted,
                 threadState, exception, acts, managedStack, result, suspendAll,
                 gcCritical, jitSuspend, threadListLock, walkTodo>>

\* Lines 589-606: the reflected Method/Constructor of the backup (a heap allocation,
\* so a suspend point) and the XposedHookInfo.
EnableHookInfo(t) ==
  /\ CanRun(t) /\ pc[t] = "eh_reflect"
  /\ LET k == op[t].backup
         reflected_method ==
           [class |-> IF IsConstructor(methods[op[t].m]) THEN "Constructor" ELSE "Method",
            art_method |-> k, accessible |-> TRUE]
     IN hookInfos' = hookInfos @@
          (k :> [reflected_method |-> reflected_method,
                 additional_info |-> op[t].info,
                 original_method |-> k])
  /\ pc' = [pc EXCEPT ![t] = "eh_sts"]
  /\ UNCHANGED <<methods, jitOwner, directCallers, runtime, aborted, op,
                 threadState, exception, acts, managedStack, result, suspendAll,
                 gcCritical, jitSuspend, threadListLock, walkTodo>>

\* Line 608: ScopedThreadSuspension sts(self, kSuspended).
EnableHookThreadSuspension(t) ==
  /\ CanRun(t) /\ pc[t] = "eh_sts"
  /\ threadState' = [threadState EXCEPT ![t] = "kSuspended"]
  /\ pc' = [pc EXCEPT ![t] = "eh_sjs"]
  /\ UNCHANGED <<methods, hookInfos, jitOwner, directCallers, runtime, aborted, op,
                 exception, acts, managedStack, result, suspendAll,
                 gcCritical, jitSuspend, threadListLock, walkTodo>>

\* Line 609: jit::ScopedJitSuspend sjs.
EnableHookJitSuspend(t) ==
  /\ ~aborted /\ pc[t] = "eh_sjs"
  /\ jitSuspend' = jitSuspend \cup {t}
  /\ pc' = [pc EXCEPT ![t] = "eh_gcs"]
  /\ UNCHANGED <<methods, hookInfos, jitOwner, directCallers, runtime, aborted, op,
                 threadState, exception, acts, managedStack, result, suspendAll,
                 gcCritical, threadListLock, walkTodo>>

\* Lines 610-612 left out: the thread goes on without the GC critical section.
EnableHookNoGCCriticalSection(t) ==
  /\ ~aborted /\ pc[t] = "eh_gcs"
  /\ pc' = [pc EXCEPT ![t] = "eh_ssa"]
  /\ UNCHANGED <<methods, hookInfos, jitOwner, directCallers, runtime, aborted, op,
                 threadState, exception, acts, managedStack, result, suspendAll,
                 gcCritical, jitSuspend, threadListLock, walkTodo>>

\* Lines 610-612: gc::ScopedGCCriticalSection gcs: waits for the section to be free.
EnableHookGCCriticalSection(t) ==
  /\ ~aborted /\ pc[t] = "eh_gcs"
  /\ gcCritical = NoThread
  /\ gcCritical' = t
  /\ pc' = [pc EXCEPT ![t] = "eh_ssa"]
  /\ UNCHANGED <<methods, hookInfos, jitOwner, directCallers, runtime, aborted, op,
                 threadState, exception, acts, managedStack, result, suspendAll,
                 jitSuspend, threadListLock, walkTodo>>

\* Line 613 left out: the thread goes on without suspending the others.
EnableHookNoSuspendAll(t) ==
  /\ ~aborted /\ pc[t] = "eh_ssa"
  /\ pc' = [pc EXCEPT ![t] = "eh_invalidate"]
  /\ UNCHANGED <<methods, hookInfos, jitOwner, directCallers, runtime, aborted, op,
                 threadState, exception, acts, managedStack, result, suspendAll,
                 gcCritical, jitSuspend, threadListLock, walkTodo>>

\* Line 613: ScopedSuspendAll ssa: returns once every other thread is suspended.
EnableHookSuspendAll(t) ==
  /\ ~aborted /\ pc[t] = "eh_ssa"
  /\ suspendAll = NoThread
  /\ \A u \in Threads \ {t} : Suspended(u)
  /\ suspendAll' = t
  /\ pc' = [pc EXCEPT ![t] = "eh_invalidate"]
  /\ UNCHANGED <<methods, hookInfos, jitOwner, directCallers, runtime, aborted, op,
                 threadState, exception, acts, managedStack, result,
                 gcCritical, jitSuspend, threadListLock, walkTodo>>

\* Lines 615-621: InvalidateCallersForMethod, then MoveObsoleteMethod(this, backup)
\* when there is a JIT.
EnableHookInvalidate(t) ==
  /\ ~aborted /\ pc[t] = "eh_invalidate"
  /\ directCallers' = directCallers \ {op[t].m}
  /\ jitOwner' = IF runtime.useJit
                   THEN [r \in DOMAIN jitOwner |->
                           IF jitOwner[r] = op[t].m THEN op[t].backup ELSE jitOwner[r]]
                   ELSE jitOwner
  /\ pc' = [pc EXCEPT ![t] = "eh_set_jni"]
  /\ UNCHANGED <<methods, hookInfos, runtime, aborted, op,
                 threadState, exception, acts, managedStack, result, suspendAll,
                 gcCritical, jitSuspend, threadListLock, walkTodo>>

\* Line 623: SetEntryPointFromJniPtrSize(hook_info).
EnableHookSetJni(t) ==
  /\ ~aborted /\ pc[t] = "eh_set_jni"
  /\ methods' = [methods EXCEPT ![op[t].m].jni = HookInfoPtr(op[t].backup)]
  /\ pc' = [pc EXCEPT ![t] = "eh_set_quick"]
  /\ UNCHANGED <<hookInfos, jitOwner, directCallers, runtime, aborted, op,
                 threadState, exception, acts, managedStack, result, suspendAll,
                 gcCritical, jitSuspend, threadListLock, walkTodo>>

\* Line 629 left out: the quick entry point stays what it was.
EnableHookKeepQuick(t) ==
  /\ ~aborted /\ pc[t] = "eh_set_quick"
  /\ pc' = [pc EXCEPT ![t] = "eh_set_cio"]
  /\ UNCHANGED <<methods, hookInfos, jitOwner, directCallers, runtime, aborted, op,
                 threadState, exception, acts, managedStack, result, suspendAll,
                 gcCritical, jitSuspend, threadListLock, walkTodo>>

\* Line 629: SetEntryPointFromQuickCompiledCode(GetQuickProxyInvokeHandler()).
EnableHookSetQuick(t) ==
  /\ ~aborted /\ pc[t] = "eh_set_quick"
  /\ methods' = [methods EXCEPT ![op[t].m].quick = QuickProxyInvokeHandler]
  /\ pc' = [pc EXCEPT ![t] = "eh_set_cio"]
  /\ UNCHANGED <<hookInfos, jitOwner, directCallers, runtime, aborted, op,
                 threadState, exception, acts, managedStack, result, suspendAll,
                 gcCritical, jitSuspend, threadListLock, walkTodo>>

\* Line 630: SetCodeItemOffset(0).
EnableHookSetCodeItemOffset(t) ==
  /\ ~aborted /\ pc[t] = "eh_set_cio"
  /\ methods' = [methods EXCEPT ![op[t].m].cio = 0]
  /\ pc' = [pc EXCEPT ![t] = "eh_set_flags"]
  /\ UNCHANGED <<hookInfos, jitOwner, directCallers, runtime, aborted, op,
                 threadState, exception, acts, managedStack, result, suspendAll,
                 gcCritical, jitSuspend, threadListLock, walkTodo>>

\* Lines 633-634 with the access flags replaced by kAccXposedHookedMethod alone.
EnableHookSetAccessFlagsOnly(t) ==
  /\ ~aborted /\ pc[t] = "eh_set_flags"
  /\ methods' = [methods EXCEPT ![op[t].m].flags = {"kAccXposedHookedMethod"}]
  /\ pc' = [pc EXCEPT ![t] = "eh_lock"]
  /\ UNCHANGED <<hookInfos, jitOwner, directCallers, runtime, aborted, op,
                 threadState, exception, acts, managedStack, result, suspendAll,
                 gcCritical, jitSuspend, threadListLock, walkTodo>>

\* Lines 633-634: clear kRemoveFlags, set kAccXposedHookedMethod.
EnableHookSetAccessFlags(t) ==
  /\ ~aborted /\ pc[t] = "eh_set_flags"
  /\ methods' = [methods EXCEPT ![op[t].m].flags =
                   (@ \ kRemoveFlags) \cup {"kAccXposedHookedMethod"}]
  /\ pc' = [pc EXCEPT ![t] = "eh_lock"]
  /\ UNCHANGED <<hookInfos, jitOwner, directCallers, runtime, aborted, op,
                 threadState, exception, acts, managedStack, result, suspendAll,
                 gcCritical, jitSuspend, threadListLock, walkTodo>>

\* Lines 636-637 with a ForEach that leaves out the calling thread.
EnableHookForEachOther(t) ==
  /\ ~aborted /\ pc[t] = "eh_lock"
  /\ threadListLock = NoThread
  /\ threadListLock' = t
  /\ walkTodo' = Threads \ {t}
  /\ pc' = [pc EXCEPT ![t] = "eh_walk"]
  /\ UNCHANGED <<methods, hookInfos, jitOwner, directCallers, runtime, aborted, op,
                 threadState, exception, acts, managedStack, result, suspendAll,
                 gcCritical, jitSuspend>>

\* Lines 636-637: take thread_list_lock_ and start ThreadList::ForEach.
EnableHookForEach(t) ==
  /\ ~aborted /\ pc[t] = "eh_lock"
  /\ threadListLock = NoThread
  /\ threadListLock' = t
  /\ walkTodo' = Threads
  /\ pc' = [pc EXCEPT ![t] = "eh_walk"]
  /\ UNCHANGED <<methods, hookInfos, jitOwner, directCallers, runtime, aborted, op,
                 threadState, exception, acts, managedStack, result, suspendAll,
                 gcCritical, jitSuspend>>

\* StackReplaceMethodVisitor::VisitFrame over every frame of a stack.
WalkStack(stack, search, replace) ==
  [i \in DOMAIN stack |->
     IF stack[i].method = search THEN [stack[i] EXCEPT !.method = replace] ELSE stack[i]]

\* Lines 536-559: the ForEach callback on one thread.
StackReplaceMethodAndInstallInstrumentation(t, thread) ==
  /\ ~aborted /\ pc[t] = "eh_walk" /\ thread \in walkTodo
  /\ LET search == op[t].m
         replace == GetXposedOriginalMethod(methods, hookInfos, search)
     IN acts' = [acts EXCEPT ![thread] = WalkStack(acts[thread], search, replace)]
  /\ walkTodo' = walkTodo \ {thread}
  /\ UNCHANGED <<methods, hookInfos, jitOwner, directCallers, runtime, aborted, pc, op,
                 threadState, exception, managedStack, result, suspendAll,
                 gcCritical, jitSuspend, threadListLock>>

\* Line 638, destructors in reverse order: ~MutexLock.
EnableHookUnlock(t) ==
  /\ ~aborted /\ pc[t] = "eh_walk" /\ walkTodo = {}
  /\ threadListLock' = NoThread
  /\ pc' = [pc EXCEPT ![t] = "eh_resume"]
  /\ UNCHANGED <<methods, hookInfos, jitOwner, directCallers, runtime, aborted, op,
                 threadState, exception, acts, managedStack, result, suspendAll,
                 gcCritical, jitSuspend, walkTodo>>

\* ~ScopedSuspendAll: ResumeAll.
EnableHookResumeAll(t) ==
  /\ ~aborted /\ pc[t] = "eh_resume"
  /\ suspendAll' = NoThread
  /\ pc' = [pc EXCEPT ![t] = "eh_gcs_exit"]
  /\ UNCHANGED <<methods, hookInfos, jitOwner, directCallers, runtime, aborted, op,
                 threadState, exception, acts, managedStack, result,
                 gcCritical, jitSuspend, threadListLock, walkTodo>>

\* ~ScopedGCCriticalSection.
EnableHookGCCriticalSectionExit(t) ==
  /\ ~aborted /\ pc[t] = "eh_gcs_exit"
  /\ gcCritical' = NoThread
  /\ pc' = [pc EXCEPT ![t] = "eh_sjs_exit"]
  /\ UNCHANGED <<methods, hookInfos, jitOwner, directCallers, runtime, aborted, op,
                 threadState, exception, acts, managedStack, result, suspendAll,
                 jitSuspend, threadListLock, walkTodo>>

\* ~ScopedJitSuspend.
EnableHookJitResume(t) ==
  /\ ~aborted /\ pc[t] = "eh_sjs_exit"
  /\ jitSuspend' = jitSuspend \ {t}
  /\ pc' = [pc EXCEPT ![t] = "eh_sts_exit"]
  /\ UNCHANGED <<methods, hookInfos, jitOwner, directCallers, runtime, aborted, op,
                 threadState, exception, acts, managedStack, result, suspendAll,
                 gcCritical, threadListLock, walkTodo>>

\* ~ScopedThreadSuspension: back to kRunnable, which waits while all are suspended;
\* EnableXposedHook returns.
EnableHookReturn(t) ==
  /\ ~aborted /\ pc[t] = "eh_sts_exit"
  /\ suspendAll = NoThread
  /\ threadState' = [threadState EXCEPT ![t] = "kRunnable"]
  /\ pc' = [pc EXCEPT ![t] = "idle"]
  /\ op' = [op EXCEPT ![t] = IdleOp]
  /\ UNCHANGED <<methods, hookInfos, jitOwner, directCallers, runtime, aborted,
                 exception, acts, managedStack, result, suspendAll,
                 gcCritical, jitSuspend, threadListLock, walkTodo>>

(***************************************************************************)
(* ArtMethod::Invoke.                                                      *)
(***************************************************************************)
Interpreter == Ptr("EnterInterpreterFromInvoke", 0)

\* Line 265 without the test of Dbg::IsForcedInterpreterNeededForCalling.
InvokeTargetIgnoreForced(m, forced) ==
  IF ~runtime.started THEN Interpreter ELSE m.quick

\* Lines 265, 279-280, 310: what runs the call: the interpreter, the quick code the
\* invoke stub jumps to, or nothing (code=null).
InvokeTarget(m, forced) ==
  IF ~runtime.started \/ forced THEN Interpreter ELSE m.quick

\* The argument array a caller passes: for an instance method the receiver comes
\* first.
InvokeArgs(m) == IF IsStatic(m) THEN <<"arg">> ELSE <<"receiver", "arg">>

\* The activation the interpreter or the invoke stub sets up: the frame's method,
\* the code the frame runs, and the ManagedStack fragment that is a local of Invoke.
Activation(t, id, target) ==
  LET args == InvokeArgs(methods[id])
      shifted == target = Interpreter /\ ~IsStatic(methods[id])
  IN [method |-> id, code |-> target, fragment |-> Depth(t) + 1,
      stay_in_interpreter |-> target = Interpreter,
      receiver |-> IF shifted THEN Head(args) ELSE "null",
      args |-> IF shifted THEN Tail(args) ELSE args]

\* Lines 245-248 placed after the push of line 257, with the result zeroed.
InvokeStackOverflowAfterPush(t) ==
  /\ CanRun(t) /\ pc[t] = "idle" /\ exception[t] = "none"
  /\ result[t] = "unwritten"
  /\ exception' = [exception EXCEPT ![t] = "StackOverflowError"]
  /\ managedStack' = [managedStack EXCEPT ![t] =
                        PushManagedStackFragment(@, Depth(t) + 1)]
  /\ result' = [result EXCEPT ![t] = "zero"]
  /\ UNCHANGED <<methods, hookInfos, jitOwner, directCallers, runtime, aborted, pc, op,
                 threadState, acts, suspendAll, gcCritical, jitSuspend,
                 threadListLock, walkTodo>>

\* Lines 245-248: the stack end is hit: throw StackOverflowError and return.
InvokeStackOverflow(t) ==
  /\ CanRun(t) /\ pc[t] = "idle" /\ exception[t] = "none"
  /\ result[t] = "unwritten"
  /\ exception' = [exception EXCEPT ![t] = "StackOverflowError"]
  /\ UNCHANGED <<methods, hookInfos, jitOwner, directCallers, runtime, aborted, pc, op,
                 threadState, acts, managedStack, result, suspendAll, gcCritical, jitSuspend,
                 threadListLock, walkTodo>>

\* Lines 256-316 with the code=null branch returning before the pop of line 319.
InvokeEnterNullLeak(t, id, forced) ==
  /\ CanRun(t) /\ pc[t] = "idle" /\ exception[t] = "none"
  /\ result[t] = "unwritten"
  /\ Depth(t) < MaxDepth
  /\ LET fragment == Depth(t) + 1
         pushed == PushManagedStackFragment(managedStack[t], fragment)
         target == InvokeTarget(methods[id], forced)
     IN /\ managedStack' = [managedStack EXCEPT ![t] = pushed]
        /\ result' = [result EXCEPT ![t] = IF target = NullPtr THEN "zero" ELSE @]
        /\ acts' = [acts EXCEPT ![t] =
                      IF target = NullPtr THEN @ ELSE Append(@, Activation(t, id, target))]
  /\ UNCHANGED <<methods, hookInfos, jitOwner, directCallers, runtime, aborted, pc, op,
                 threadState, exception, suspendAll, gcCritical, jitSuspend,
                 threadListLock, walkTodo>>

\* Lines 256-316: the push of the fragment and the dispatch, up to the entry into
\* the interpreter or the invoke stub; the code=null branch runs on to the pop of
\* line 319.
InvokeEnter(t, id, forced) ==
  /\ CanRun(t) /\ pc[t] = "idle" /\ exception[t] = "none"
  /\ result[t] = "unwritten"
  /\ Depth(t) < MaxDepth
  /\ LET fragment == Depth(t) + 1
         pushed == PushManagedStackFragment(managedStack[t], fragment)
         target == InvokeTarget(methods[id], forced)
     IN IF target = NullPtr
          THEN /\ managedStack' = [managedStack EXCEPT ![t] =
                                     PopManagedStackFragment(pushed, fragment)]
               /\ result' = [result EXCEPT ![t] = "zero"]
               /\ UNCHANGED acts
          ELSE /\ managedStack' = [managedStack EXCEPT ![t] = pushed]
               /\ acts' = [acts EXCEPT ![t] = Append(@, Activation(t, id, target))]
               /\ UNCHANGED result
  /\ UNCHANGED <<methods, hookInfos, jitOwner, directCallers, runtime, aborted, pc, op,
                 threadState, exception, suspendAll, gcCritical, jitSuspend,
                 threadListLock, walkTodo>>

\* Lines 300-304 seen from the callee: the compiled code the stub runs leaves with
\* the deoptimization exception pending.
QuickCodeDeoptimize(t) ==
  /\ CanRun(t) /\ pc[t] = "idle" /\ exception[t] = "none"
  /\ result[t] = "unwritten"
  /\ acts[t] # <<>>
  /\ acts[t][Len(acts[t])].code # Interpreter
  /\ exception' = [exception EXCEPT ![t] = "DeoptimizationException"]
  /\ UNCHANGED <<methods, hookInfos, jitOwner, directCallers, runtime, aborted, pc, op,
                 threadState, acts, managedStack, result, suspendAll, gcCritical, jitSuspend,
                 threadListLock, walkTodo>>

\* Lines 296-320: the interpreter or the stub returns; a pending deoptimization
\* exception is resumed in the interpreter (DeoptimizeWithDeoptimizationException
\* takes it); the fragment is popped.
InvokeReturn(t) ==
  /\ CanRun(t) /\ pc[t] = "idle"
  /\ exception[t] \in {"none", "DeoptimizationException"}
  /\ result[t] = "unwritten"
  /\ acts[t] # <<>>
  /\ LET n == Len(acts[t])
     IN /\ exception' = [exception EXCEPT ![t] = "none"]
        /\ result' = [result EXCEPT ![t] =
                        IF exception[t] = "DeoptimizationException"
                          THEN "deoptimized" ELSE "returned"]
        /\ acts' = [acts EXCEPT ![t] = SubSeq(@, 1, n - 1)]
        /\ managedStack' = [managedStack EXCEPT ![t] =
                              PopManagedStackFragment(@, acts[t][n].fragment)]
  /\ UNCHANGED <<methods, hookInfos, jitOwner, directCallers, runtime, aborted, pc, op,
                 threadState, suspendAll, gcCritical, jitSuspend,
                 threadListLock, walkTodo>>

\* The caller sees the pending exception of a rejected call and clears it.
ExceptionClear(t) ==
  /\ CanRun(t) /\ pc[t] = "idle"
  /\ exception[t] \in {"StackOverflowError", "IllegalArgumentException"}
  /\ exception' = [exception EXCEPT ![t] = "none"]
  /\ UNCHANGED <<methods, hookInfos, jitOwner, directCallers, runtime, aborted, pc, op,
                 threadState, acts, managedStack, result, suspendAll, gcCritical, jitSuspend,
                 threadListLock, walkTodo>>

\* The caller reads the JValue its Invoke call has written.
ResultRead(t) ==
  /\ CanRun(t) /\ pc[t] = "idle"
  /\ result[t] # "unwritten"
  /\ result' = [result EXCEPT ![t] = "unwritten"]
  /\ UNCHANGED <<methods, hookInfos, jitOwner, directCallers, runtime, aborted, pc, op,
                 threadState, exception, acts, managedStack, suspendAll, gcCritical,
                 jitSuspend, threadListLock, walkTodo>>

(***************************************************************************)
(* ArtMethod::RegisterNative / UnregisterNative.                           *)
(***************************************************************************)
\* Lines 322-334 without the redirection of lines 323-326.
RegisterNativeOnNoRedirect(ms, his, id, native_method, is_fast) ==
  IF ~IsNative(ms[id]) \/ IsFastNative(ms[id]) \/ native_method = NullPtr
    THEN [abort |-> TRUE, methods |-> ms]
  ELSE [abort |-> FALSE,
        methods |-> [ms EXCEPT ![id].flags = IF is_fast THEN @ \cup {"kAccFastNative"} ELSE @,
                               ![id].jni = native_method]]

RECURSIVE RegisterNativeOn(_, _, _, _, _)
\* Lines 322-334: the result is the methods after the call, or a failed CHECK.
RegisterNativeOn(ms, his, id, native_method, is_fast) ==
  IF IsXposedHookedMethod(ms[id])
    THEN RegisterNativeOn(ms, his, GetXposedOriginalMethod(ms, his, id), native_method, is_fast)
  ELSE IF ~IsNative(ms[id]) \/ IsFastNative(ms[id]) \/ native_method = NullPtr
    THEN [abort |-> TRUE, methods |-> ms]
  ELSE [abort |-> FALSE,
        methods |-> [ms EXCEPT ![id].flags = IF is_fast THEN @ \cup {"kAccFastNative"} ELSE @,
                               ![id].jni = native_method]]

RECURSIVE UnregisterNativeOn(_, _, _)
\* Lines 336-344.
UnregisterNativeOn(ms, his, id) ==
  IF IsXposedHookedMethod(ms[id])
    THEN UnregisterNativeOn(ms, his, GetXposedOriginalMethod(ms, his, id))
  ELSE IF ~(IsNative(ms[id]) /\ ~IsFastNative(ms[id]))
    THEN [abort |-> TRUE, methods |-> ms]
  ELSE RegisterNativeOn(ms, his, id, JniDlsymLookupStub, FALSE)

RegisterNative(t, id, native_method, is_fast) ==
  /\ CanRun(t) /\ pc[t] = "idle" /\ exception[t] = "none"
  /\ result[t] = "unwritten"
  /\ LET r == RegisterNativeOn(methods, hookInfos, id, native_method, is_fast)
     IN /\ aborted' = r.abort
        /\ methods' = r.methods
  /\ UNCHANGED <<hookInfos, jitOwner, directCallers, runtime, pc, op,
                 threadState, exception, acts, managedStack, result, suspendAll,
                 gcCritical, jitSuspend, threadListLock, walkTodo>>

UnregisterNative(t, id) ==
  /\ CanRun(t) /\ pc[t] = "idle" /\ exception[t] = "none"
  /\ result[t] = "unwritten"
  /\ LET r == UnregisterNativeOn(methods, hookInfos, id)
     IN /\ aborted' = r.abort
        /\ methods' = r.methods
  /\ UNCHANGED <<hookInfos, jitOwner, directCallers, runtime, pc, op,
                 threadState, exception, acts, managedStack, result, suspendAll,
                 gcCritical, jitSuspend, threadListLock, walkTodo>>

(***************************************************************************)
(* The threads' steps.                                                     *)
(***************************************************************************)
EnableHookSteps ==
  \/ \E t \in Threads : EnableHookCheck(t)
  \/ \E t \in Threads : EnableHookBackup(t)
  \/ \E t \in Threads : EnableHookInfo(t)
  \/ \E t \in Threads : EnableHookThreadSuspension(t)
  \/ \E t \in Threads : EnableHookJitSuspend(t)
  \/ \E t \in Threads : EnableHookGCCriticalSection(t)
  \/ \E t \in Threads : EnableHookSuspendAll(t)
  \/ \E t \in Threads : EnableHookInvalidate(t)
  \/ \E t \in Threads : EnableHookSetJni(t)
  \/ \E t \in Threads : EnableHookSetQuick(t)
  \/ \E t \in Threads : EnableHookSetCodeItemOffset(t)
  \/ \E t \in Threads : EnableHookSetAccessFlags(t)
  \/ \E t \in Threads : EnableHookForEach(t)
  \/ \E t \in Threads, thread \in Threads :
       StackReplaceMethodAndInstallInstrumentation(t, thread)
  \/ \E t \in Threads : EnableHookUnlock(t)
  \/ \E t \in Threads : EnableHookResumeAll(t)
  \/ \E t \in Threads : EnableHookGCCriticalSectionExit(t)
  \/ \E t \in Threads : EnableHookJitResume(t)
  \/ \E t \in Threads : EnableHookReturn(t)

NextHook ==
  \/ StartRuntime
  \/ \E t \in Hookers, id \in DOMAIN methods \ {Other}, info \in Payloads :
       CallEnableXposedHook(t, id, info)
  \/ EnableHookSteps
  \/ \E t \in Threads : InvokeStackOverflow(t)
  \/ \E t \in Threads, id \in DOMAIN methods, forced \in BOOLEAN :
       Cardinality(Frames) < MaxFrames /\ InvokeEnter(t, id, forced)
  \/ \E t \in Threads : QuickCodeDeoptimize(t)
  \/ \E t \in Threads : InvokeReturn(t)
  \/ \E t \in Threads : ExceptionClear(t)
  \/ \E t \in Threads : ResultRead(t)
  \/ \E t \in Threads, id \in DOMAIN methods, native_method \in {NullPtr, NativeFn},
        is_fast \in BOOLEAN :
       RegisterNative(t, id, native_method, is_fast)
  \/ \E t \in Threads, id \in DOMAIN methods : UnregisterNative(t, id)

Next == NextHook /\ UNCHANGED <<fcb, loc, eqp, jitInvalidated>>

Spec == Init /\ [][Next]_vars

(***************************************************************************)
(* SpecRace: every thread hooks the same method.                           *)
(***************************************************************************)
NextRace ==
  \/ \E t \in Threads, info \in Payloads : CallEnableXposedHook(t, Hookee, info)
  \/ EnableHookSteps

SpecRace == Init /\ [][NextRace /\ UNCHANGED <<fcb, loc, eqp, jitInvalidated>>]_vars

(***************************************************************************)
(* SpecHookAny: every thread hooks any method there is, the backups and    *)
(* a method of a proxy class included.                                     *)
(***************************************************************************)
HookedKinds == MethodKinds \cup {"proxy"}

InitHookAny == InitHookOf(HookedKinds) /\ fcb = IdleCatch /\ loc = IdleLocate /\ eqp = IdleParams

NextHookAny ==
  \/ \E t \in Threads, id \in DOMAIN methods : CallEnableXposedHook(t, id, "p1")
  \/ EnableHookSteps
  \/ \E t \in Threads : ExceptionClear(t)

SpecHookAny == InitHookAny /\ [][NextHookAny /\ UNCHANGED <<fcb, loc, eqp, jitInvalidated>>]_vars

(***************************************************************************)
(* SpecInvoke: nested Invoke calls, nothing is hooked.                     *)
(***************************************************************************)
NextInvoke ==
  \/ StartRuntime
  \/ \E t \in Threads : InvokeStackOverflow(t)
  \/ \E t \in Threads, id \in DOMAIN methods, forced \in BOOLEAN :
       InvokeEnter(t, id, forced)
  \/ \E t \in Threads : QuickCodeDeoptimize(t)
  \/ \E t \in Threads : InvokeReturn(t)
  \/ \E t \in Threads : ExceptionClear(t)
  \/ \E t \in Threads : ResultRead(t)

SpecInvoke == Init /\ [][NextInvoke /\ UNCHANGED <<fcb, loc, eqp, jitInvalidated>>]_vars

(***************************************************************************)
(* ArtMethod::InvalidateCompiledCode and ArtMethod::CopyFrom as calls.     *)
(***************************************************************************)
\* How many methods there are at most when CopyFrom makes another one.
MaxMethods == 3

\* JitCodeCache::InvalidateCompiledCodeFor(method): a method whose entry point is
\* code of the cache goes back to the interpreter bridge.
InvalidateCompiledCodeFor(m) ==
  IF ContainsPc(m.quick) THEN [m EXCEPT !.quick = QuickToInterpreterBridge] ELSE m

\* Lines 523-534 without the CHECK of line 524.
InvalidateCompiledCodeUnchecked(t, id) ==
  /\ CanRun(t) /\ pc[t] = "idle" /\ exception[t] = "none"
  /\ result[t] = "unwritten"
  /\ LET marked == IF ~IgnoreAotCode(methods[id])
                     THEN SetIgnoreAotCode(methods[id]) ELSE methods[id]
     IN IF runtime.useJit
          THEN /\ jitInvalidated' = jitInvalidated \cup {id}
               /\ methods' = [methods EXCEPT ![id] = InvalidateCompiledCodeFor(marked)]
          ELSE /\ methods' = [methods EXCEPT ![id] =
                                [marked EXCEPT !.quick = QuickToInterpreterBridge]]
               /\ UNCHANGED jitInvalidated
  /\ UNCHANGED <<hookInfos, jitOwner, directCallers, runtime, aborted, pc, op,
                 threadState, exception, acts, managedStack, result, suspendAll,
                 gcCritical, jitSuspend, threadListLock, walkTodo>>

\* Lines 523-534.
InvalidateCompiledCode(t, id) ==
  /\ CanRun(t) /\ pc[t] = "idle" /\ exception[t] = "none"
  /\ result[t] = "unwritten"
  /\ IF IsXposedHookedMethod(methods[id])
       THEN /\ aborted' = TRUE
            /\ UNCHANGED <<methods, jitInvalidated>>
       ELSE LET marked == IF ~IgnoreAotCode(methods[id])
                            THEN SetIgnoreAotCode(methods[id]) ELSE methods[id]
            IN /\ IF runtime.useJit
                    THEN /\ jitInvalidated' = jitInvalidated \cup {id}
                         /\ methods' = [methods EXCEPT ![id] =
                                          InvalidateCompiledCodeFor(marked)]
                    ELSE /\ methods' = [methods EXCEPT ![id] =
                                          [marked EXCEPT !.quick = QuickToInterpreterBridge]]
                         /\ UNCHANGED jitInvalidated
               /\ UNCHANGED aborted
  /\ UNCHANGED <<hookInfos, jitOwner, directCallers, runtime, pc, op,
                 threadState, exception, acts, managedStack, result, suspendAll,
                 gcCritical, jitSuspend, threadListLock, walkTodo>>

\* A new method is made a copy of src: CreateRuntimeMethod, then lines 492-521.
CopyFromCall(t, src) ==
  /\ CanRun(t) /\ pc[t] = "idle" /\ exception[t] = "none"
  /\ result[t] = "unwritten"
  /\ Cardinality(DOMAIN methods) < MaxMethods
  /\ LET k == Cardinality(DOMAIN methods) + 1
     IN methods' = methods @@ (k :> CopyFrom(methods[src], runtime.useJit))
  /\ UNCHANGED <<hookInfos, jitOwner, directCallers, runtime, aborted, pc, op,
                 threadState, exception, acts, managedStack, result, suspendAll,
                 gcCritical, jitSuspend, threadListLock, walkTodo>>

\* The kinds of method hooked in SpecDescriptor.
DescriptorKinds == MethodKinds \cup {"conflict"}

InitDescriptor ==
  /\ InitHookOf(DescriptorKinds)
  /\ fcb = IdleCatch /\ loc = IdleLocate /\ eqp = IdleParams

NextDescriptor ==
  \/ /\ \/ \E t \in Hookers, info \in Payloads :
            CallEnableXposedHook(t, Hookee, info)
        \/ EnableHookSteps
        \/ \E t \in Hookers, id \in DOMAIN methods,
              native_method \in {NullPtr, NativeFn}, is_fast \in BOOLEAN :
             RegisterNative(t, id, native_method, is_fast)
        \/ \E t \in Hookers, id \in DOMAIN methods : UnregisterNative(t, id)
        \/ \E t \in Hookers, src \in DOMAIN methods : CopyFromCall(t, src)
     /\ UNCHANGED jitInvalidated
  \/ \E t \in Hookers, id \in DOMAIN methods : InvalidateCompiledCode(t, id)

\* SpecDescriptor: one thread makes the calls that write a method's fields, in
\* any order, on the method it hooks, the backup and the copies.
SpecDescriptor == InitDescriptor /\ [][NextDescriptor /\ UNCHANGED <<fcb, loc, eqp>>]_vars

(***************************************************************************)
(* ArtMethod::FindCatchBlock.                                              *)
(***************************************************************************)
\* Type indexes of the dex file and the class each resolves to; the class of
\* index 3 has been stripped and does not resolve.
TypeIdxs == {1, 2, 3}
ClassOfType == (1 :> "A") @@ (2 :> "B") @@ (3 :> "null")
\* The classes thrown: B extends A, C is unrelated.
ExceptionTypes == {"A", "B", "C"}

\* mirror::Class::IsAssignableFrom.
IsAssignableFrom(klass, src) == klass = src \/ (klass = "A" /\ src = "B")

\* GetClassFromTypeIndex(type_idx, resolve = true): the class, or null with a
\* NoClassDefFoundError pending.
GetClassFromTypeIndex(type_idx) == ClassOfType[type_idx]

\* Where the handler of the i-th entry of a handler list starts.
HandlerAddress(i) == MaxPc + i

\* The handler list of a try item as CatchHandlerIterator walks it: the typed
\* handlers in order, then the catch-all if there is one.
HandlerList(typed, catch_all) ==
  [i \in 1..(Len(typed) + (IF catch_all THEN 1 ELSE 0)) |->
     [type_idx |-> IF i <= Len(typed) THEN typed[i] ELSE kDexNoIndex16,
      address |-> HandlerAddress(i)]]

\* The code items searched: one try item over two code units, its handler list,
\* and the opcode each handler starts with.
CodeItems ==
  {[try_start |-> 1, insn_count |-> 2,
    handlers |-> HandlerList(typed, catch_all),
    insns |-> [a \in (MaxPc + 1)..(MaxPc + MaxHandlers + 1) |-> opcode]] :
     typed \in UNION {[1..n -> TypeIdxs] : n \in 0..MaxHandlers},
     catch_all \in BOOLEAN,
     opcode \in {"MOVE_EXCEPTION", "NOP"}}

\* Line 205, CatchHandlerIterator it(*code_item, dex_pc): the handlers of the try
\* item that covers dex_pc, none if no try item does.
CatchHandlers(code_item, dex_pc) ==
  IF /\ code_item.try_start <= dex_pc
     /\ dex_pc < code_item.try_start + code_item.insn_count
    THEN code_item.handlers
    ELSE <<>>

InitCatch ==
  /\ InitHookOf({"jit"})
  /\ loc = IdleLocate
  /\ eqp = IdleParams
  /\ \E code_item \in CodeItems, dex_pc \in 0..MaxPc, exception_type \in ExceptionTypes,
        pending \in {"none", "in_flight"} :
       fcb = [pc |-> "fcb_entry", code_item |-> code_item, dex_pc |-> dex_pc,
              exception_type |-> exception_type, at_entry |-> pending,
              self_exception |-> pending, exception |-> "none",
              found_dex_pc |-> kDexNoIndex, it |-> 1, iter_exception_type |-> "null",
              has_no_move_exception |-> "unset", result |-> kDexNoIndex]

\* Lines 195-204: set the exception aside; default to handler not found.
FcbSetAside ==
  /\ fcb.pc = "fcb_entry"
  /\ fcb' = [fcb EXCEPT !.exception = fcb.self_exception,
                        !.self_exception = "none",
                        !.found_dex_pc = kDexNoIndex,
                        !.it = 1,
                        !.pc = "fcb_iterate"]

\* Lines 205-211: the loop test and the catch-all case.
FcbIterate ==
  /\ fcb.pc = "fcb_iterate"
  /\ LET handlers == CatchHandlers(fcb.code_item, fcb.dex_pc)
     IN IF fcb.it > Len(handlers)
          THEN fcb' = [fcb EXCEPT !.pc = "fcb_finish"]
          ELSE IF handlers[fcb.it].type_idx = kDexNoIndex16
            THEN fcb' = [fcb EXCEPT !.found_dex_pc = handlers[fcb.it].address,
                                    !.pc = "fcb_finish"]
            ELSE fcb' = [fcb EXCEPT !.pc = "fcb_resolve"]

\* Lines 213-215: resolve the handler's type; a failure leaves NoClassDefFoundError
\* pending.
FcbResolve ==
  /\ fcb.pc = "fcb_resolve"
  /\ LET handlers == CatchHandlers(fcb.code_item, fcb.dex_pc)
         klass == GetClassFromTypeIndex(handlers[fcb.it].type_idx)
     IN fcb' = [fcb EXCEPT !.iter_exception_type = klass,
                           !.self_exception =
                              IF klass = "null" THEN "NoClassDefFoundError" ELSE @,
                           !.pc = "fcb_match"]

\* Lines 216-229 with the scan given up at a type that does not resolve.
FcbMatchStopOnUnresolved ==
  /\ fcb.pc = "fcb_match"
  /\ LET handlers == CatchHandlers(fcb.code_item, fcb.dex_pc)
     IN IF fcb.iter_exception_type = "null"
          THEN fcb' = [fcb EXCEPT !.self_exception = "none", !.pc = "fcb_finish"]
          ELSE IF IsAssignableFrom(fcb.iter_exception_type, fcb.exception_type)
            THEN fcb' = [fcb EXCEPT !.found_dex_pc = handlers[fcb.it].address,
                                    !.pc = "fcb_finish"]
            ELSE fcb' = [fcb EXCEPT !.it = @ + 1, !.pc = "fcb_iterate"]

\* Lines 216-229 without the ClearException of line 220.
FcbMatchKeepError ==
  /\ fcb.pc = "fcb_match"
  /\ LET handlers == CatchHandlers(fcb.code_item, fcb.dex_pc)
     IN IF fcb.iter_exception_type = "null"
          THEN fcb' = [fcb EXCEPT !.it = @ + 1, !.pc = "fcb_iterate"]
          ELSE IF IsAssignableFrom(fcb.iter_exception_type, fcb.exception_type)
            THEN fcb' = [fcb EXCEPT !.found_dex_pc = handlers[fcb.it].address,
                                    !.pc = "fcb_finish"]
            ELSE fcb' = [fcb EXCEPT !.it = @ + 1, !.pc = "fcb_iterate"]

\* Lines 216-229: an unresolved type: clear the error and go on (it.Next()); an
\* assignable type: found, break; otherwise go on.
FcbMatch ==
  /\ fcb.pc = "fcb_match"
  /\ LET handlers == CatchHandlers(fcb.code_item, fcb.dex_pc)
     IN IF fcb.iter_exception_type = "null"
          THEN fcb' = [fcb EXCEPT !.self_exception = "none",
                                  !.it = @ + 1, !.pc = "fcb_iterate"]
          ELSE IF IsAssignableFrom(fcb.iter_exception_type, fcb.exception_type)
            THEN fcb' = [fcb EXCEPT !.found_dex_pc = handlers[fcb.it].address,
                                    !.pc = "fcb_finish"]
            ELSE fcb' = [fcb EXCEPT !.it = @ + 1, !.pc = "fcb_iterate"]

\* Lines 231-240: has_no_move_exception, put the exception back, return.
FcbFinish ==
  /\ fcb.pc = "fcb_finish"
  /\ fcb' = [fcb EXCEPT
       !.has_no_move_exception =
          IF fcb.found_dex_pc # kDexNoIndex
            THEN fcb.code_item.insns[fcb.found_dex_pc] # "MOVE_EXCEPTION"
            ELSE @,
       !.self_exception = IF fcb.exception # "none" THEN fcb.exception ELSE @,
       !.result = fcb.found_dex_pc,
       !.pc = "fcb_done"]

NextCatch ==
  \/ FcbSetAside
  \/ FcbIterate
  \/ FcbResolve
  \/ FcbMatch
  \/ FcbFinish

SpecCatch == InitCatch /\ [][NextCatch /\ UNCHANGED <<hookVars, loc, eqp, jitInvalidated>>]_vars

(***************************************************************************)
(* ArtMethod::GetOatQuickMethodHeader.                                     *)
(***************************************************************************)
\* The program counters of a code region: region r lies at 2r-1 and 2r.
CodeRange(p) == {2 * p.id - 1, 2 * p.id}

\* OatQuickMethodHeader::FromEntryPoint(p)->Contains(pc). In front of a trampoline
\* there is no header: what is read there is whatever the build put there (junk).
HeaderContains(p, addr, junk) ==
  IF p.kind \in {"oat_code", "jit_code"} THEN addr \in CodeRange(p) ELSE junk

\* JitCodeCache::ContainsPc(pc): some region of the cache holds the pc.
CodeCacheContainsPc(owners, addr) ==
  \E r \in DOMAIN owners : addr \in CodeRange(JitCode(r))

\* JitCodeCache::LookupMethodHeader(pc, method): the regions that hold the pc and
\* belong to the method.
LookupMethodHeader(owners, addr, id) ==
  {r \in DOMAIN owners : addr \in CodeRange(JitCode(r)) /\ owners[r] = id}

Absent == [kind |-> "null", code |-> NullPtr]
Fatal == [kind |-> "abort", code |-> NullPtr]
Header(p) == [kind |-> "header", code |-> p]

\* Lines 441-478 with the two placeholder entry points answered by null for a
\* downcall (pc 0) only.
HeaderFromOatDowncallOnly(m, addr, env) ==
  IF ~env.oat.found
    THEN IF m.quick \in {QuickResolutionStub, QuickInstrumentationEntryPoint} /\ addr = 0
           THEN IF env.debug /\ ~IsNative(m) THEN Fatal ELSE Absent
           ELSE Header(m.quick)
  ELSE IF env.oat.code \in {NullPtr, QuickGenericJniStub}
    THEN IF env.debug /\ ~IsNative(m) THEN Fatal ELSE Absent
  ELSE IF addr = 0
    THEN IF env.debug /\ ~IsNative(m) THEN Fatal ELSE Header(env.oat.code)
  ELSE IF env.debug /\ ~HeaderContains(env.oat.code, addr, env.junk)
    THEN Fatal
  ELSE Header(env.oat.code)

\* Lines 441-478: the code has to be in an oat file.
HeaderFromOat(m, addr, env) ==
  IF ~env.oat.found
    THEN IF m.quick \in {QuickResolutionStub, QuickInstrumentationEntryPoint}
           THEN IF env.debug /\ (addr # 0 \/ ~IsNative(m)) THEN Fatal ELSE Absent
           ELSE Header(m.quick)
  ELSE IF env.oat.code \in {NullPtr, QuickGenericJniStub}
    THEN IF env.debug /\ ~IsNative(m) THEN Fatal ELSE Absent
  ELSE IF addr = 0
    THEN IF env.debug /\ ~IsNative(m) THEN Fatal ELSE Header(env.oat.code)
  ELSE IF env.debug /\ ~HeaderContains(env.oat.code, addr, env.junk)
    THEN Fatal
  ELSE Header(env.oat.code)

\* Lines 422-439: the JIT code cache, then the oat file.
HeaderFromJit(m, id, addr, env) ==
  LET hit == LookupMethodHeader(env.owners, addr, id)
  IN IF env.jit /\ hit # {}
       THEN Header(JitCode(CHOOSE r \in hit : TRUE))
     ELSE IF env.jit /\ env.debug /\ CodeCacheContainsPc(env.owners, addr)
       THEN Fatal
     ELSE HeaderFromOat(m, addr, env)

\* Lines 386-479 without the tests of lines 400 and 405 for the entry points
\* that have no header.
GetOatQuickMethodHeaderNoStubTest(m, id, addr, env) ==
  IF IsRuntimeMethod(m) THEN Absent
  ELSE IF m.quick = NullPtr THEN Fatal
  ELSE IF /\ m.quick \notin {QuickResolutionStub, QuickToInterpreterBridge}
          /\ HeaderContains(m.quick, addr, env.junk)
    THEN Header(m.quick)
  ELSE HeaderFromJit(m, id, addr, env)

\* Lines 386-479. env: [jit, owners] the JIT and its code cache, [oat] what
\* FindOatMethodFor finds, [debug] kIsDebugBuild, [junk] see HeaderContains.
\* The result is null, a header, or a failed (D)CHECK.
GetOatQuickMethodHeader(m, id, addr, env) ==
  IF IsRuntimeMethod(m) THEN Absent
  ELSE IF m.quick = NullPtr THEN Fatal
  ELSE IF m.quick = QuickGenericJniStub THEN Absent
  ELSE IF m.quick = QuickProxyInvokeHandler
    THEN IF env.debug
            /\ ~(IsXposedHookedMethod(m) \/ (IsRealProxyMethod(m) /\ ~IsConstructor(m)))
           THEN Fatal ELSE Absent
  ELSE IF /\ m.quick \notin {QuickResolutionStub, QuickToInterpreterBridge}
          /\ HeaderContains(m.quick, addr, env.junk)
    THEN Header(m.quick)
  ELSE HeaderFromJit(m, id, addr, env)

\* The entry points a method can have when its header is looked up.
EntryPoints ==
  {NullPtr, QuickGenericJniStub, QuickProxyInvokeHandler, QuickResolutionStub,
   QuickToInterpreterBridge, QuickInstrumentationEntryPoint, OatCode(1), JitCode(2)}

\* The methods looked up: Hookee's fields with every entry point, as a plain,
\* native, hooked, proxy or runtime method.
LocateMethods ==
  {[InitialMethod("abstract") EXCEPT !.flags = flags, !.quick = quick,
                                     !.declaring_class = class,
                                     !.dex_method_index = idx] :
     flags \in {{}, {"kAccNative"}, {"kAccXposedHookedMethod"}},
     quick \in EntryPoints, class \in {"C", "Proxy"}, idx \in {Hookee, kDexNoIndex}}

\* The JIT and oat registrations: no JIT, or a cache whose region 2 belongs to the
\* method or to another one; no oat method, or one with no code, the generic JNI
\* stub or the code of region 1.
LocateEnvs ==
  {[jit |-> jit, owners |-> owners, oat |-> oat, debug |-> debug, junk |-> junk] :
     jit \in BOOLEAN, owners \in {(2 :> Hookee), (2 :> Other)},
     oat \in {[found |-> found, code |-> code] :
                found \in BOOLEAN, code \in {NullPtr, QuickGenericJniStub, OatCode(1)}},
     debug \in BOOLEAN, junk \in BOOLEAN}

\* What the program can be in: code of the cache needs a JIT and belongs to the
\* method; a hooked method has the proxy handler; a proxy class has proxy methods;
\* only hooked and proxy methods are given the proxy handler (lines 629 and 406);
\* an oat method that was not found has no code to give.
LocateInputOk(m, env) ==
  /\ m.quick.kind = "jit_code" => env.jit /\ env.owners[m.quick.id] = Hookee
  /\ ~env.jit => env.owners = (2 :> Other)
  /\ IsXposedHookedMethod(m) => m.quick = QuickProxyInvokeHandler
  /\ m.declaring_class = "Proxy" => m.quick = QuickProxyInvokeHandler
  /\ m.quick = QuickProxyInvokeHandler =>
       IsXposedHookedMethod(m) \/ m.declaring_class = "Proxy"
  /\ ~env.oat.found => env.oat.code = NullPtr

InitLocate ==
  /\ InitHookOf({"jit"})
  /\ fcb = IdleCatch
  /\ eqp = IdleParams
  /\ \E m \in LocateMethods, env \in LocateEnvs, addr \in 0..MaxPc :
       /\ LocateInputOk(m, env)
       /\ loc = [pc |-> "call", method |-> m, addr |-> addr, env |-> env,
                 result |-> Absent]

Locate ==
  /\ loc.pc = "call"
  /\ loc' = [loc EXCEPT !.result = GetOatQuickMethodHeader(loc.method, Hookee, loc.addr,
                                                          loc.env),
                        !.pc = "done"]

NextLocate == Locate

SpecLocate == InitLocate /\ [][NextLocate /\ UNCHANGED <<hookVars, fcb, eqp, jitInvalidated>>]_vars

(***************************************************************************)
(* ArtMethod::EqualParameters.                                             *)
(***************************************************************************)
\* The longest parameter list compared.
MaxParams == 2

\* The classes a caller passes; an element of the array can be null.
ParamClasses == {"A", "B", "null"}

\* dex_file->GetProtoParameters(proto_id): null for a method without parameters
\* (and a list can be empty), else the declared type indexes.
ProtoParameters ==
  {[null |-> TRUE, list |-> <<>>]} \cup
  {[null |-> FALSE, list |-> l] : l \in UNION {[1..n -> TypeIdxs] : n \in 0..MaxParams}}

\* Handle<ObjectArray<Class>> params: a null handle or an array of classes.
ParamArrays ==
  {[null |-> TRUE, list |-> <<>>]} \cup
  {[null |-> FALSE, list |-> l] : l \in UNION {[1..n -> ParamClasses] : n \in 0..MaxParams}}

\* ClassLinker::ResolveType(type_idx, this): the class, or null with an error
\* pending.
ResolveType(type_idx) == ClassOfType[type_idx]

InitParams ==
  /\ InitHookOf({"jit"})
  /\ fcb = IdleCatch
  /\ loc = IdleLocate
  /\ \E proto_params \in ProtoParameters, params \in ParamArrays :
       eqp = [pc |-> "eqp_entry", proto_params |-> proto_params, params |-> params,
              count |-> 0, param_len |-> 0, i |-> 0, type |-> "null",
              resolved |-> 0, self_exception |-> "none", result |-> "unset"]

\* Lines 351-360: the two lengths, and false at once if they differ.
EqpLengths ==
  /\ eqp.pc = "eqp_entry"
  /\ LET count == IF ~eqp.proto_params.null THEN Len(eqp.proto_params.list) ELSE 0
         param_len == IF ~eqp.params.null THEN Len(eqp.params.list) ELSE 0
     IN eqp' = [eqp EXCEPT !.count = count, !.param_len = param_len,
                           !.result = IF param_len # count THEN "false" ELSE @,
                           !.pc = IF param_len # count THEN "eqp_done" ELSE "eqp_loop"]

\* Lines 361 and 372: the loop test; true after the last position.
EqpLoop ==
  /\ eqp.pc = "eqp_loop"
  /\ IF eqp.i < eqp.count
       THEN eqp' = [eqp EXCEPT !.pc = "eqp_resolve"]
       ELSE eqp' = [eqp EXCEPT !.result = "true", !.pc = "eqp_done"]

\* Lines 362-363: resolve the declared type of position i.
EqpResolve ==
  /\ eqp.pc = "eqp_resolve"
  /\ LET type == ResolveType(eqp.proto_params.list[eqp.i + 1])
     IN eqp' = [eqp EXCEPT !.type = type,
                           !.resolved = @ + 1,
                           !.self_exception =
                              IF type = "null" THEN "NoClassDefFoundError" ELSE @,
                           !.pc = "eqp_compare"]

\* Lines 364-371 with a type that does not resolve passed over.
EqpCompareSkipUnresolved ==
  /\ eqp.pc = "eqp_compare"
  /\ IF eqp.type = "null"
       THEN eqp' = [eqp EXCEPT !.i = @ + 1, !.pc = "eqp_loop"]
       ELSE IF eqp.type # eqp.params.list[eqp.i + 1]
         THEN eqp' = [eqp EXCEPT !.result = "false", !.pc = "eqp_done"]
         ELSE eqp' = [eqp EXCEPT !.i = @ + 1, !.pc = "eqp_loop"]

\* Lines 364-371: false for a type that did not resolve (the error stays
\* pending) and for a type that is not the one given; otherwise the next position.
EqpCompare ==
  /\ eqp.pc = "eqp_compare"
  /\ IF eqp.type = "null"
       THEN eqp' = [eqp EXCEPT !.result = "false", !.pc = "eqp_done"]
       ELSE IF eqp.type # eqp.params.list[eqp.i + 1]
         THEN eqp' = [eqp EXCEPT !.result = "false", !.pc = "eqp_done"]
         ELSE eqp' = [eqp EXCEPT !.i = @ + 1, !.pc = "eqp_loop"]

NextParams ==
  \/ EqpLengths
  \/ EqpLoop
  \/ EqpResolve
  \/ EqpCompare

SpecParams == InitParams /\ [][NextParams /\ UNCHANGED <<hookVars, fcb, loc, jitInvalidated>>]_vars

(***************************************************************************)
(* Properties of the hot-patch installer and the dispatcher.               *)
(***************************************************************************)
FrameAt(f) == acts[f[1]][f[2]]

\* The payload of the Hook Record a hooked method carries.
HookPayload(id) == hookInfos[methods[id].jni.id].additional_info

\* C1: once EnableXposedHook has returned for a method that was neither hooked nor
\* a backup, the method is hooked; no step of any later EnableXposedHook,
\* RegisterNative, UnregisterNative or Invoke call takes the hooked flag away; and
\* an EnableXposedHook call that finds the method hooked returns at once and leaves
\* every method, Hook Record, entry point, flag, lock and thread state as it was.
C1_HookedIsTerminal ==
  /\ [][\A t \in Threads :
          (pc[t] = "eh_sts_exit" /\ pc'[t] = "idle")
            => IsXposedHookedMethod(methods'[op[t].m])]_vars
  /\ [][\A id \in DOMAIN methods :
          IsXposedHookedMethod(methods[id]) => IsXposedHookedMethod(methods'[id])]_vars
  /\ [][\A t \in Threads :
          (pc[t] = "eh_check" /\ pc'[t] # "eh_check"
             /\ IsXposedHookedMethod(methods[op[t].m]))
            => /\ pc'[t] = "idle"
               /\ UNCHANGED <<methods, hookInfos, jitOwner, directCallers, runtime,
                              aborted, threadState, exception, acts, managedStack, result,
                              suspendAll, gcCritical, jitSuspend, threadListLock,
                              walkTodo>>]_vars

\* A second EnableXposedHook call, with another payload, is about to test a hooked method.
C1_Witness ==
  \E t \in Threads :
    /\ pc[t] = "eh_check"
    /\ IsXposedHookedMethod(methods[op[t].m])
    /\ HookPayload(op[t].m) # op[t].info

\* C2: whatever the interleaving of EnableXposedHook calls on one method, the Hook
\* Record a hooked method carries (its payload and backup) is never replaced.
C2_HookRecordNeverReplaced ==
  [][\A id \in DOMAIN methods :
       IsXposedHookedMethod(methods[id]) => methods'[id].jni = methods[id].jni]_vars

\* A method as it is before a hook, and as it is after one.
PreHook(m) == ~IsXposedHookedMethod(m) /\ m.jni.kind # "hook_info"
PostHook(m) ==
  /\ IsXposedHookedMethod(m)
  /\ m.jni.kind = "hook_info"
  /\ m.quick = QuickProxyInvokeHandler
  /\ m.cio = 0
  /\ m.flags \cap kRemoveFlags = {}

\* C3: while EnableXposedHook is between its writes to the method, the calling
\* thread holds the suspension of all threads and no thread can run; so whenever a
\* thread can run, every method is entirely pre-hook or entirely post-hook.
C3_NoTornMethod ==
  /\ \A t \in Threads :
       pc[t] \in {"eh_set_jni", "eh_set_quick", "eh_set_cio", "eh_set_flags"}
         => suspendAll = t /\ \A u \in Threads : ~CanRun(u)
  /\ (\E u \in Threads : CanRun(u))
       => \A id \in DOMAIN methods : PreHook(methods[id]) \/ PostHook(methods[id])

\* The hooking thread is between its writes while another thread is inside a call.
C3_Witness ==
  \E t \in Threads, u \in Threads :
    /\ u # t
    /\ pc[t] = "eh_set_quick"
    /\ acts[u] # <<>>
    /\ ~PreHook(methods[op[t].m]) /\ ~PostHook(methods[op[t].m])

\* The positions of EnableXposedHook from the first write to the end of the walk.
RewritePcs == {"eh_set_quick", "eh_set_cio", "eh_set_flags", "eh_lock", "eh_walk", "eh_resume"}

C5_HookedInvokeRunsHandler ==
  [][\A t \in Threads :
       (Len(acts'[t]) = Len(acts[t]) + 1
          /\ IsXposedHookedMethod(methods[acts'[t][Len(acts'[t])].method]))
         => acts'[t][Len(acts'[t])].code = QuickProxyInvokeHandler]_vars

\* C6: EnableXposedHook on a backup throws IllegalArgumentException and returns:
\* no method, Hook Record or JIT bookkeeping changes, no lock or suspension is
\* taken, no thread changes state.
C6_BackupRejected ==
  [][\A t \in Threads :
       (pc[t] = "eh_check" /\ pc'[t] # "eh_check"
          /\ IsXposedOriginalMethod(methods[op[t].m]))
         => /\ pc'[t] = "idle"
            /\ exception'[t] = "IllegalArgumentException"
            /\ UNCHANGED <<methods, hookInfos, jitOwner, directCallers, runtime,
                           aborted, threadState, acts, managedStack, result, suspendAll,
                           gcCritical, jitSuspend, threadListLock, walkTodo>>]_vars

\* A call on a backup has been rejected.
C6_Witness ==
  \E t \in Threads :
    /\ exception[t] = "IllegalArgumentException"
    /\ \E id \in DOMAIN methods : IsXposedOriginalMethod(methods[id])

\* C7: for a pc other than 0, GetOatQuickMethodHeader returns null or a header
\* whose code range contains the pc.
C7_HeaderContainsPc ==
  (loc.pc = "done" /\ loc.addr # 0 /\ loc.result.kind = "header")
    => HeaderContains(loc.result.code, loc.addr, loc.env.junk)

\* C8: the fragments on a thread's managed stack are those of its live Invoke
\* calls, innermost first, so each return leaves the list as it was at entry; an
\* Invoke that ends without entering code (stack overflow, code=null) leaves the
\* list as it found it.
C8_FragmentPoppedOnEveryExit ==
  /\ [](\A t \in Threads :
          /\ Len(managedStack[t]) = Len(acts[t])
          /\ \A i \in DOMAIN acts[t] :
               managedStack[t][Len(acts[t]) + 1 - i] = acts[t][i].fragment)
  /\ [][\A t \in Threads :
          acts'[t] = acts[t] => managedStack'[t] = managedStack[t]]_vars

\* Two nested Invoke calls are live, the inner one about to leave by deoptimization.
C8_Witness ==
  \E t \in Threads :
    /\ Len(acts[t]) = 2
    /\ managedStack[t] = <<acts[t][2].fragment, acts[t][1].fragment>>
    /\ exception[t] = "DeoptimizationException"

\* The entries of a handler list that qualify for an exception type.
Qualifying(handlers, exception_type) ==
  {i \in DOMAIN handlers :
     \/ handlers[i].type_idx = kDexNoIndex16
     \/ /\ ClassOfType[handlers[i].type_idx] # "null"
        /\ IsAssignableFrom(ClassOfType[handlers[i].type_idx], exception_type)}

\* The address of the first qualifying entry, kDexNoIndex if there is none.
FirstQualifying(handlers, exception_type) ==
  LET q == Qualifying(handlers, exception_type)
  IN IF q = {} THEN kDexNoIndex
     ELSE handlers[CHOOSE i \in q : \A j \in q : i <= j].address

\* C9: FindCatchBlock returns the address of the first handler, in the order of
\* the handlers that cover dex_pc, that is a catch-all or whose type resolves and
\* is assignable from exception_type; handlers whose type does not resolve are
\* passed over; with no such handler it returns kDexNoIndex.
C9_FirstQualifyingHandler ==
  fcb.pc = "fcb_done"
    => fcb.result = FirstQualifying(CatchHandlers(fcb.code_item, fcb.dex_pc),
                                    fcb.exception_type)

\* The handler found comes after one whose type did not resolve.
C9_Witness ==
  /\ fcb.pc = "fcb_done"
  /\ fcb.result # kDexNoIndex
  /\ \E i \in DOMAIN fcb.code_item.handlers :
       /\ fcb.code_item.handlers[i].address < fcb.result
       /\ fcb.code_item.handlers[i].type_idx # kDexNoIndex16
       /\ ClassOfType[fcb.code_item.handlers[i].type_idx] = "null"

\* C10: when FindCatchBlock returns, the thread's pending exception is the one
\* that was pending at entry, none if none was.
C10_ExceptionPutBack ==
  fcb.pc = "fcb_done" => fcb.self_exception = fcb.at_entry

\* FindCatchBlock has returned after a type failed to resolve, entered with no
\* exception pending.
C10_Witness ==
  /\ fcb.pc = "fcb_done"
  /\ fcb.at_entry = "none"
  /\ fcb.iter_exception_type = "null"
  /\ fcb.it > 1

\* The native pointers RegisterNative is called with.
NativePointers == {NullPtr, NativeFn}

\* What RegisterNative requires of the method it writes (lines 327-329).
CanRegister(m, native_method) ==
  IsNative(m) /\ ~IsFastNative(m) /\ native_method # NullPtr

\* C11: RegisterNative and UnregisterNative on a hooked method leave the hooked
\* method's own fields as they are and do to its backup what the same call made
\* on the backup does: where the backup is native and not fast-native, its JNI
\* entry point becomes the pointer given (the dlsym lookup stub for
\* UnregisterNative) and kAccFastNative is added exactly when is_fast is set.
C11_NativeRedirectedToBackup ==
  /\ [][\A t \in Threads, id \in DOMAIN methods, native_method \in NativePointers,
          is_fast \in BOOLEAN :
          (IsXposedHookedMethod(methods[id])
             /\ RegisterNative(t, id, native_method, is_fast))
            => LET b == GetXposedOriginalMethod(methods, hookInfos, id)
                   direct == RegisterNativeOn(methods, hookInfos, b, native_method, is_fast)
               IN /\ methods'[id] = methods[id]
                  /\ methods' = direct.methods /\ aborted' = direct.abort
                  /\ CanRegister(methods[b], native_method)
                       => /\ methods'[b].jni = native_method
                          /\ methods'[b].flags =
                               methods[b].flags \cup
                                 (IF is_fast THEN {"kAccFastNative"} ELSE {})
                          /\ \A o \in DOMAIN methods \ {b} : methods'[o] = methods[o]]_vars
  /\ [][\A t \in Threads, id \in DOMAIN methods :
          (IsXposedHookedMethod(methods[id]) /\ UnregisterNative(t, id))
            => LET b == GetXposedOriginalMethod(methods, hookInfos, id)
                   direct == UnregisterNativeOn(methods, hookInfos, b)
               IN /\ methods'[id] = methods[id]
                  /\ methods' = direct.methods /\ aborted' = direct.abort
                  /\ CanRegister(methods[b], JniDlsymLookupStub)
                       => /\ methods'[b].jni = JniDlsymLookupStub
                          /\ methods'[b].flags = methods[b].flags]_vars

\* A native function has been registered through a hooked method: the backup has
\* it, the hooked method still has its XposedHookInfo.
C11_Witness ==
  \E id \in DOMAIN methods :
    /\ IsXposedHookedMethod(methods[id])
    /\ methods[id].jni.kind = "hook_info"
    /\ methods[GetXposedOriginalMethod(methods, hookInfos, id)].jni = NativeFn

\* C12: RegisterNative or UnregisterNative on a method of the wrong kind (for a
\* hooked method, a backup of the wrong kind) does not abort the process and
\* changes no method.
C12_WrongKindNotFatal ==
  [][(\E t \in Threads, id \in DOMAIN methods :
        \/ UnregisterNative(t, id)
        \/ \E native_method \in NativePointers, is_fast \in BOOLEAN :
             RegisterNative(t, id, native_method, is_fast))
       => ~aborted']_vars

\* C13: InvalidateCompiledCode on a hooked method is rejected (the CHECK of line
\* 524) and writes nothing; on any other method it leaves the ignore-AOT mark
\* set, and with no JIT sets the quick entry point to the interpreter bridge,
\* while with a JIT it asks the code cache to invalidate the method's code and
\* writes no entry point itself.
C13_InvalidateCompiledCode ==
  [][\A t \in Threads, id \in DOMAIN methods :
       InvalidateCompiledCode(t, id)
         => IF IsXposedHookedMethod(methods[id])
              THEN aborted' /\ methods' = methods /\ jitInvalidated' = jitInvalidated
              ELSE /\ ~aborted'
                   /\ IgnoreAotCode(methods'[id])
                   /\ methods'[id].flags = methods[id].flags
                   /\ methods'[id].jni = methods[id].jni
                   /\ \A o \in DOMAIN methods \ {id} : methods'[o] = methods[o]
                   /\ ~runtime.useJit
                        => /\ methods'[id].quick = QuickToInterpreterBridge
                           /\ jitInvalidated' = jitInvalidated
                   /\ runtime.useJit
                        => /\ id \in jitInvalidated'
                           /\ methods'[id] =
                                InvalidateCompiledCodeFor(SetIgnoreAotCode(methods[id]))
                           /\ ~ContainsPc(methods[id].quick)
                                => methods'[id].quick = methods[id].quick]_vars

\* InvalidateCompiledCode has been rejected on a hooked method, and has marked
\* another method.
C13_Witness ==
  /\ aborted
  /\ \E id \in DOMAIN methods :
       IsXposedHookedMethod(methods[id]) /\ ~IgnoreAotCode(methods[id])
  /\ \E id \in DOMAIN methods :
       ~IsXposedHookedMethod(methods[id]) /\ IgnoreAotCode(methods[id])

\* C14: every invokable method (not abstract, not default-conflicting), a method
\* just hooked and every backup and copy included, has a quick entry point that
\* is not null.
C14_InvokableHasQuickCode ==
  \A id \in DOMAIN methods :
    IsInvokable(methods[id]) => methods[id].quick # NullPtr

\* A method that was abstract or default-conflicting, with no code, has been
\* hooked: it is invokable now and its backup is not.
C14_Witness ==
  \E id \in DOMAIN methods :
    /\ IsXposedHookedMethod(methods[id])
    /\ IsInvokable(methods[id])
    /\ LET b == GetXposedOriginalMethod(methods, hookInfos, id)
       IN ~IsInvokable(methods[b]) /\ methods[b].quick = NullPtr

\* What the caller's sequence has to be for the comparison to succeed: as long
\* as the declared list, and at each position the class the declared type
\* resolves to.
SameParameters(proto_params, params) ==
  /\ Len(params.list) = Len(proto_params.list)
  /\ \A k \in 1..Len(proto_params.list) :
       /\ ClassOfType[proto_params.list[k]] # "null"
       /\ ClassOfType[proto_params.list[k]] = params.list[k]

\* C15: EqualParameters returns true exactly when the given sequence (null
\* counts as empty) is as long as the declared list and every declared type
\* resolves to the class given at its position; when a resolution fails the
\* answer is false and the error of the resolution is still pending at the
\* return; when the lengths differ the answer is false and no type was resolved;
\* with no declared parameter a null or empty sequence gives true, any other
\* false.
C15_EqualParameters ==
  eqp.pc = "eqp_done" =>
    /\ eqp.result = IF SameParameters(eqp.proto_params, eqp.params)
                      THEN "true" ELSE "false"
    /\ eqp.type = "null" /\ eqp.resolved > 0 =>
         eqp.result = "false" /\ eqp.self_exception = "NoClassDefFoundError"
    /\ eqp.result = "true" => eqp.self_exception = "none"
    /\ Len(eqp.params.list) # Len(eqp.proto_params.list) =>
         eqp.result = "false" /\ eqp.resolved = 0
    /\ Len(eqp.proto_params.list) = 0 =>
         eqp.result = IF Len(eqp.params.list) = 0 THEN "true" ELSE "false"

\* A comparison of two lists of the same length ended because the second
\* declared type did not resolve.
C15_Witness ==
  /\ eqp.pc = "eqp_done"
  /\ Len(eqp.proto_params.list) = 2
  /\ Len(eqp.params.list) = 2
  /\ eqp.resolved = 2
  /\ eqp.type = "null"
  /\ eqp.result = "false"
  /\ eqp.self_exception = "NoClassDefFoundError"

\* C16: the lookup takes the first case that applies, in this order: a runtime
\* method, or an entry point that is the generic JNI stub or the proxy handler,
\* gives no header for any pc, whatever the code cache and the oat file hold;
\* else the header of the entry point, if the entry point is neither the
\* resolution stub nor the interpreter bridge and its code contains the pc;
\* else the header the code cache has for the pc and the method; and the oat file
\* decides only when the code cache has none (a debug build stops there if the
\* cache holds the pc for another method).
C16_LookupOrder ==
  (loc.pc = "done" /\ (IsRuntimeMethod(loc.method) \/ loc.method.quick # NullPtr)) =>
    LET m == loc.method
        hit == LookupMethodHeader(loc.env.owners, loc.addr, Hookee)
    IN IF \/ IsRuntimeMethod(m)
          \/ m.quick \in {QuickGenericJniStub, QuickProxyInvokeHandler}
         THEN loc.result = Absent
       ELSE IF /\ m.quick \notin {QuickResolutionStub, QuickToInterpreterBridge}
               /\ HeaderContains(m.quick, loc.addr, loc.env.junk)
         THEN loc.result = Header(m.quick)
       ELSE IF loc.env.jit /\ hit # {}
         THEN \E r \in hit : loc.result = Header(JitCode(r))
       ELSE IF /\ loc.env.jit /\ loc.env.debug
               /\ CodeCacheContainsPc(loc.env.owners, loc.addr)
         THEN loc.result = Fatal
       ELSE loc.result = HeaderFromOat(m, loc.addr, loc.env)

\* A lookup through the generic JNI stub answered with no header although the
\* code cache has code of the method at the pc and the oat file has code too.
C16_Witness ==
  /\ loc.pc = "done"
  /\ ~IsRuntimeMethod(loc.method)
  /\ loc.method.quick = QuickGenericJniStub
  /\ loc.env.jit
  /\ LookupMethodHeader(loc.env.owners, loc.addr, Hookee) # {}
  /\ loc.env.oat.found
  /\ loc.env.oat.code = OatCode(1)
  /\ loc.result = Absent

\* A finished lookup that came to the oat file and found no oat method: not a
\* runtime method, an entry point that is not one of those without a header, no
\* header of the entry point that contains the pc, nothing in the code cache.
NoOatCode ==
  /\ loc.pc = "done"
  /\ ~IsRuntimeMethod(loc.method)
  /\ loc.method.quick \notin {NullPtr, QuickGenericJniStub, QuickProxyInvokeHandler}
  /\ ~(/\ loc.method.quick \notin {QuickResolutionStub, QuickToInterpreterBridge}
       /\ HeaderContains(loc.method.quick, loc.addr, loc.env.junk))
  /\ ~(loc.env.jit /\ CodeCacheContainsPc(loc.env.owners, loc.addr))
  /\ ~loc.env.oat.found

Entered(t) == acts'[t][Len(acts'[t])]

\* C19: a call made while the runtime is not started, or with interpretation
\* forced, enters the interpreter, told to stay in it, with the receiver taken
\* from the first argument slot and the arguments after it for an instance
\* method (no receiver and all the arguments for a static one), whatever the
\* quick entry point of the method is, null included; a call enters quick code
\* only when the runtime is started, interpretation is not forced and the entry
\* point is not null, and then it is the code of the entry point.
C19_InterpreterWhenNotStartedOrForced ==
  [][\A t \in Threads, id \in DOMAIN methods, forced \in BOOLEAN :
       InvokeEnter(t, id, forced) =>
         LET m == methods[id]
         IN /\ (~runtime.started \/ forced) =>
                 /\ acts'[t] = Append(acts[t], Entered(t))
                 /\ Entered(t).method = id
                 /\ Entered(t).code = Interpreter
                 /\ Entered(t).stay_in_interpreter
                 /\ Entered(t).receiver = IF IsStatic(m) THEN "null" ELSE InvokeArgs(m)[1]
                 /\ Entered(t).args = IF IsStatic(m) THEN InvokeArgs(m)
                                                     ELSE Tail(InvokeArgs(m))
                 /\ result'[t] = "unwritten"
            /\ (Len(acts'[t]) > Len(acts[t]) /\ Entered(t).code # Interpreter) =>
                 /\ runtime.started /\ ~forced
                 /\ m.quick # NullPtr
                 /\ Entered(t).code = m.quick
                 /\ ~Entered(t).stay_in_interpreter
            /\ (runtime.started /\ ~forced /\ m.quick = NullPtr) => acts'[t] = acts[t]]_vars

\* With the runtime started, an instance method whose quick entry point is null
\* is running in the interpreter: its call was forced there.
C19_Witness ==
  \E t \in Threads :
    /\ acts[t] # <<>>
    /\ runtime.started
    /\ LET a == acts[t][Len(acts[t])]
       IN /\ a.code = Interpreter
          /\ a.stay_in_interpreter
          /\ methods[a.method].quick = NullPtr
          /\ ~IsStatic(methods[a.method])
          /\ a.receiver = "receiver"
          /\ a.args = <<"arg">>

\* C20: the steps of EnableXposedHook on d change d's access flags once, and that
\* change clears native, synchronized, abstract, default and default-conflict,
\* sets the hooked bit and leaves every other bit as it was; when the call
\* returns after its writes, d's JNI entry point is the hook record made by this
\* call (with its payload and its backup), d's quick entry point is the proxy
\* handler, its code item offset is 0, the five bits are clear and the hooked
\* bit is set.
C20_HookedMethodFields ==
  [][\A t \in Hookers :
       (pc[t] # "idle" /\ pc'[t] # pc[t]) =>
         LET d == op[t].m
             before == methods[d].flags
             after == methods'[d].flags
         IN /\ pc[t] # "eh_set_flags" => after = before
            /\ pc[t] = "eh_set_flags" =>
                 \A f \in before \cup after \cup kRemoveFlags \cup {"kAccXposedHookedMethod"} :
                   IF f \in kRemoveFlags THEN f \notin after
                   ELSE IF f = "kAccXposedHookedMethod" THEN f \in after
                   ELSE f \in after <=> f \in before
            /\ (pc[t] = "eh_sts_exit" /\ pc'[t] = "idle") =>
                 /\ methods'[d].jni = HookInfoPtr(op[t].backup)
                 /\ hookInfos'[op[t].backup].original_method = op[t].backup
                 /\ hookInfos'[op[t].backup].additional_info = op[t].info
                 /\ methods'[d].quick = QuickProxyInvokeHandler
                 /\ methods'[d].cio = 0
                 /\ after \cap kRemoveFlags = {}
                 /\ "kAccXposedHookedMethod" \in after]_vars

\* The hook of a static native method has returned: the method is hooked, no
\* longer native, and still static.
C20_Witness ==
  /\ \A t \in Hookers : pc[t] = "idle"
  /\ PostHook(methods[Hookee])
  /\ "kAccStatic" \in methods[Hookee].flags
  /\ "kAccNative" \in methods[hookInfos[methods[Hookee].jni.id].original_method].flags

\* What a thread inside EnableXposedHook holds.
HoldsSuspendAll(t) ==
  suspendAll = t /\ \A u \in Threads \ {t} : ~CanRun(u) /\ Suspended(u)
HoldsGCCriticalSection(t) == gcCritical = t
HoldsJitSuspend(t) == t \in jitSuspend
HoldsAll(t) == HoldsSuspendAll(t) /\ HoldsGCCriticalSection(t) /\ HoldsJitSuspend(t)
HoldsNone(t) == suspendAll # t /\ gcCritical # t /\ t \notin jitSuspend /\ threadListLock # t

\* The steps of EnableXposedHook that invalidate the callers, move the JIT
\* bookkeeping, overwrite the method and rewrite the frames.
PatchStep(t) ==
  \/ EnableHookInvalidate(t)
  \/ EnableHookSetJni(t)
  \/ EnableHookSetQuick(t)
  \/ EnableHookSetCodeItemOffset(t)
  \/ EnableHookSetAccessFlags(t)
  \/ EnableHookForEach(t)
  \/ \E thread \in Threads : StackReplaceMethodAndInstallInstrumentation(t, thread)

\* C21: EnableXposedHook invalidates the callers, moves the JIT bookkeeping,
\* overwrites the method and rewrites the frames only while it has every other
\* thread suspended, holds the GC critical section and has the JIT suspended;
\* it takes them in the order JIT, GC, suspend-all and gives them back in the
\* opposite order; a thread that is not inside the call, or is on a path that
\* returns early, holds none of them, and when the call has returned no thread is
\* held back by it.
C21_PatchUnderSuspension ==
  [][\A t \in Threads :
       /\ PatchStep(t) => HoldsAll(t)
       /\ (~HoldsJitSuspend(t) /\ HoldsJitSuspend(t)') =>
            ~HoldsGCCriticalSection(t) /\ suspendAll # t
       /\ (~HoldsGCCriticalSection(t) /\ HoldsGCCriticalSection(t)') =>
            HoldsJitSuspend(t) /\ suspendAll # t
       /\ (suspendAll # t /\ suspendAll' = t) =>
            HoldsJitSuspend(t) /\ HoldsGCCriticalSection(t)
       /\ (suspendAll = t /\ suspendAll' # t) =>
            HoldsJitSuspend(t)' /\ HoldsGCCriticalSection(t)' /\ threadListLock # t
       /\ (HoldsGCCriticalSection(t) /\ ~HoldsGCCriticalSection(t)') =>
            HoldsJitSuspend(t)' /\ suspendAll # t
       /\ (HoldsJitSuspend(t) /\ ~HoldsJitSuspend(t)') =>
            ~HoldsGCCriticalSection(t) /\ suspendAll # t
       /\ (pc[t] \in {"idle", "eh_check", "eh_backup", "eh_reflect", "eh_sts"}) => HoldsNone(t)
       /\ (pc'[t] = "idle") =>
            /\ HoldsNone(t)'
            /\ threadState'[t] = "kRunnable"
       /\ (pc[t] = "eh_check" /\ pc'[t] = "idle") =>
            UNCHANGED <<suspendAll, gcCritical, jitSuspend, threadListLock, threadState>>
       /\ (\A u \in Threads : pc'[u] = "idle") =>
            suspendAll' = NoThread /\ \A u \in Threads : threadState'[u] = "kRunnable"]_vars

\* The hooking thread is rewriting the frames of a thread that is inside a call
\* of the method, holding all three.
C21_Witness ==
  \E t \in Threads, u \in Threads :
    /\ u # t
    /\ pc[t] = "eh_walk"
    /\ u \in walkTodo
    /\ acts[u] # <<>>
    /\ HoldsAll(t)

\* C22: the backup that EnableXposedHook makes is a new method equal to the
\* hooked method as it is when copied, in declaring class, method index, access
\* flags, code item offset, JNI entry point and quick entry point, except that
\* the backup flag is set, the hotness count is 0, the profiling info is null
\* unless the method is native, and the quick entry point is the interpreter
\* bridge when there is a JIT and the method's entry point is in its code cache;
\* the copy leaves the method as it was, and the later steps of the call do not
\* change the backup.
C22_BackupIsSnapshot ==
  [][\A t \in Threads :
       /\ EnableHookBackup(t) =>
            LET d == methods[op[t].m]
                b == methods'[op'[t].backup]
            IN /\ op'[t].backup \notin DOMAIN methods
               /\ methods'[op[t].m] = d
               /\ b.declaring_class = d.declaring_class
               /\ b.dex_method_index = d.dex_method_index
               /\ b.flags = d.flags \cup {"kAccXposedOriginalMethod"}
               /\ b.cio = d.cio
               /\ b.jni = d.jni
               /\ b.ignore_aot_code = d.ignore_aot_code
               /\ b.hotness = 0
               /\ b.profiling = IF IsNative(d) THEN d.profiling ELSE "null"
               /\ b.quick = IF runtime.useJit /\ d.quick.kind = "jit_code"
                              THEN QuickToInterpreterBridge ELSE d.quick
       /\ (/\ pc[t] \notin {"idle", "eh_check", "eh_backup"}
           /\ (pc'[t] # pc[t] \/ walkTodo' # walkTodo)) =>
            methods'[op[t].backup] = methods[op[t].backup]]_vars

\* The hook of a method with JIT code has returned: the method is overwritten and
\* its backup still has the old flags and offset, the interpreter bridge as entry
\* point, no profiling info and a hotness of 0.
C22_Witness ==
  /\ \A t \in Threads : pc[t] = "idle"
  /\ PostHook(methods[Hookee])
  /\ LET b == methods[GetXposedOriginalMethod(methods, hookInfos, Hookee)]
     IN /\ b.flags = {"kAccSynchronized", "kAccXposedOriginalMethod"}
        /\ b.cio = 1
        /\ b.quick = QuickToInterpreterBridge
        /\ b.profiling = "null"
        /\ b.hotness = 0

\* C23 as stated: whatever calls of EnableXposedHook have run, in whatever
\* interleaving, no method is both hooked and a backup, the hook record of every
\* hooked method names a method that is a backup and is not hooked, and no
\* backup has the proxy handler as its quick entry point.
C23_BackupNeverHasProxyHandler ==
  /\ \A id \in DOMAIN methods :
       ~(IsXposedHookedMethod(methods[id]) /\ IsXposedOriginalMethod(methods[id]))
  /\ \A id \in DOMAIN methods :
       IsXposedHookedMethod(methods[id]) =>
         /\ methods[id].jni.kind = "hook_info"
         /\ IsXposedOriginalMethod(methods[GetXposedOriginalMethod(methods, hookInfos, id)])
         /\ ~IsXposedHookedMethod(methods[GetXposedOriginalMethod(methods, hookInfos, id)])
  /\ \A id \in DOMAIN methods :
       IsXposedOriginalMethod(methods[id]) => methods[id].quick # QuickProxyInvokeHandler

\* C23: whatever calls of EnableXposedHook have run, in whatever interleaving,
\* no method is both hooked and a backup, the hook record of every hooked method
\* names a method that is a backup and is not hooked, and a backup has the proxy
\* handler as its quick entry point only when it is the backup of a method of a
\* proxy class, which had that entry point before it was hooked; such a backup
\* is not hooked, so the handler does not take it for a hooked method.
C23_BackupNeverHooked ==
  /\ \A id \in DOMAIN methods :
       ~(IsXposedHookedMethod(methods[id]) /\ IsXposedOriginalMethod(methods[id]))
  /\ \A id \in DOMAIN methods :
       IsXposedHookedMethod(methods[id]) =>
         /\ methods[id].jni.kind = "hook_info"
         /\ IsXposedOriginalMethod(methods[GetXposedOriginalMethod(methods, hookInfos, id)])
         /\ ~IsXposedHookedMethod(methods[GetXposedOriginalMethod(methods, hookInfos, id)])
  /\ \A id \in DOMAIN methods :
       (IsXposedOriginalMethod(methods[id]) /\ methods[id].quick = QuickProxyInvokeHandler) =>
         IsRealProxyMethod(methods[id])

\* Two calls on a method of a proxy class have both returned: the method is
\* hooked, there are two backups, and the backup its hook record names has the
\* proxy handler as entry point and is not hooked.
C23_Witness ==
  /\ \A t \in Threads : pc[t] = "idle"
  /\ IsXposedHookedMethod(methods[Hookee])
  /\ Cardinality({id \in DOMAIN methods : IsXposedOriginalMethod(methods[id])}) >= 2
  /\ LET b == methods[GetXposedOriginalMethod(methods, hookInfos, Hookee)]
     IN /\ IsXposedOriginalMethod(b)
        /\ ~IsXposedHookedMethod(b)
        /\ b.declaring_class = "Proxy"
        /\ b.quick = QuickProxyInvokeHandler

\* What a lookup made in the current state can find: the JIT and its code cache
\* as they are, any oat registration, either build.
LookupEnvs ==
  {[jit |-> runtime.useJit, owners |-> jitOwner, oat |-> oat, debug |-> debug,
    junk |-> junk] :
     oat \in {[found |-> FALSE, code |-> NullPtr], [found |-> TRUE, code |-> NullPtr],
              [found |-> TRUE, code |-> QuickGenericJniStub],
              [found |-> TRUE, code |-> OatCode(1)]},
     debug \in BOOLEAN, junk \in BOOLEAN}

\* C24: when a call of EnableXposedHook on a method that had code in the JIT code
\* cache returns after its writes, the lookup of a pc of that code for the backup
\* the call has made gives the header of that code, and the lookup for the
\* hooked method gives no header. (Every region of the code cache is code that
\* was compiled for the method before it was hooked.)
C24_BackupResolvesJitCode ==
  [][\A t \in Threads :
       (pc[t] = "eh_sts_exit" /\ pc'[t] = "idle") =>
         \A r \in DOMAIN jitOwner, env \in LookupEnvs :
           \A addr \in CodeRange(JitCode(r)) :
             /\ GetOatQuickMethodHeader(methods[op[t].backup], op[t].backup, addr, env)
                  = Header(JitCode(r))
             /\ GetOatQuickMethodHeader(methods[op[t].m], op[t].m, addr, env) = Absent]_vars

====
